---- MODULE Spec2Model ----
(***************************************************************************)
(* Schema-driven record editors of the Streamlit pages                     *)
(*   views/dq_mdar_masterfile_editor.py  (masterfile editor)               *)
(*   views/table_form_editor.py          (generic table form editor)       *)
(* and the Send Request handler of views/mcp_connect.py (MCP page)         *)
(*                                                                         *)
(* Python strings are modelled as sequences of one-character strings, so   *)
(* that strip, upper/lower, substring tests, quote doubling and regular    *)
(* expression matching are computed character by character.  Python values *)
(* are tagged records [t, s, n]: t is the Python type, s the characters of *)
(* a str, n the number of an int (0/1 for a bool).  A dict is a sequence   *)
(* of <<key, value>> pairs in insertion order.                             *)
(***************************************************************************)
EXTENDS Integers, Sequences, FiniteSets, TLC

VARIABLES
    \* ---- masterfile editor page: st.session_state and its backend ----
    db,                      \* rows of TABLE_NAME in the warehouse
    db_schema,               \* what DESCRIBE TABLE_NAME returns, in order
    table_data,              \* st.session_state.table_data
    table_schema,            \* st.session_state.table_schema
    connection_established,  \* st.session_state.connection_established
    query,                   \* statement handed to cursor.execute by the last handler
    message,                 \* st.success / st.error shown by the last handler
    selected_record,         \* the row the last handler had selected
    failure,                 \* the backend call that raised in the last handler
    \* ---- calls of the editors' functions ----
    editor,                  \* which file's insert_record / update_record is called
    record_data,             \* the record_data argument; on the page, the form_data of Add Record
    sql_insert,              \* outcome of insert_record(TABLE, record_data, conn)
    sql_update,              \* outcome of update_record(TABLE, record_data, where, conn)
    validation,              \* outcome of validate_new_record(record_data)
    column_type,             \* the column_type argument of render_form_field
    field_kind,              \* the input control render_form_field chose
    ticket,                  \* the ticket argument of validate_ticket_format and check_ticket_exists
    ticket_valid,            \* outcome of validate_ticket_format(ticket)
    field_current,           \* the current_value argument of render_form_field
    field_value,             \* what render_form_field returns for an untouched input
    field_column,            \* the column_name argument of render_form_field
    field_suffix,            \* the key_suffix argument of render_form_field
    field_options,           \* the options render_form_field hands to st.selectbox
    \* ---- generic table form editor page ----
    table_name,              \* the table the selection widgets name in the last script run
    interface,               \* how the call of show_table_form_interface ended in that run
    refresh_shown,           \* whether that run rendered the Refresh Data button
    \* ---- MCP page ----
    mcp_session_id,          \* st.session_state.mcp_session_id
    mcp_calls                \* requests the last Send Request handed to http_request

vars == <<db, db_schema, table_data, table_schema, connection_established,
          query, message, selected_record, editor, record_data, sql_insert, sql_update,
          validation, column_type, field_kind, ticket, ticket_valid,
          failure, field_current, field_value, field_column, field_suffix,
          field_options, table_name, interface, refresh_shown, mcp_session_id,
          mcp_calls>>

pageVars == <<db, db_schema, table_data, table_schema, connection_established,
              query, message, selected_record, failure>>

seedVars == <<field_current, field_value>>

dropdownVars == <<field_column, field_suffix, field_options>>

formVars == <<table_name, interface, refresh_shown>>

mcpVars == <<mcp_session_id, mcp_calls>>

callVars == <<editor, record_data, sql_insert, sql_update, validation,
              column_type, field_kind, ticket, ticket_valid>>

(***************************************************************************)
(* Bounds of the model                                                     *)
(***************************************************************************)
MaxFields == 2       \* longest record_data handed to insert/update_record
MaxDigits == 4       \* longest number part of a typed ticket
MaxWords  == 2       \* most fragments a declared type string is built from
MaxRows   == 2       \* most rows the backend table holds

(***************************************************************************)
(* Python str operations, character by character                           *)
(***************************************************************************)
UpperLetters == <<"A","B","C","D","E","F","G","H","I","J","K","L","M",
                  "N","O","P","Q","R","S","T","U","V","W","X","Y","Z">>

LowerLetters == <<"a","b","c","d","e","f","g","h","i","j","k","l","m",
                  "n","o","p","q","r","s","t","u","v","w","x","y","z">>

Digits == <<"0","1","2","3","4","5","6","7","8","9">>

Whitespace == {" ", "\t", "\n"}

IndexIn(c, letters) ==
    IF \E i \in 1..Len(letters) : letters[i] = c
    THEN CHOOSE i \in 1..Len(letters) : letters[i] = c
    ELSE 0

\* str.lower()
lower(s) ==
    [i \in 1..Len(s) |->
        IF IndexIn(s[i], UpperLetters) > 0
        THEN LowerLetters[IndexIn(s[i], UpperLetters)]
        ELSE s[i]]

\* str.upper()
upper(s) ==
    [i \in 1..Len(s) |->
        IF IndexIn(s[i], LowerLetters) > 0
        THEN UpperLetters[IndexIn(s[i], LowerLetters)]
        ELSE s[i]]

\* str.strip(): drop leading and trailing whitespace
strip(s) ==
    IF \A i \in 1..Len(s) : s[i] \in Whitespace
    THEN <<>>
    ELSE LET first == CHOOSE i \in 1..Len(s) :
                          /\ s[i] \notin Whitespace
                          /\ \A j \in 1..(i-1) : s[j] \in Whitespace
             last  == CHOOSE i \in 1..Len(s) :
                          /\ s[i] \notin Whitespace
                          /\ \A j \in (i+1)..Len(s) : s[j] \in Whitespace
         IN  SubSeq(s, first, last)

\* the Python test  k in s  for two strings
contains(s, k) ==
    \E i \in 1..(Len(s) - Len(k) + 1) : SubSeq(s, i, i + Len(k) - 1) = k

\* val.replace("'", "''")
RECURSIVE replace_quote(_)
replace_quote(s) ==
    IF s = <<>> THEN <<>>
    ELSE (IF Head(s) = "'" THEN <<"'", "'">> ELSE <<Head(s)>>)
         \o replace_quote(Tail(s))

\* str(n) of an int
RECURSIVE nat_str(_)
nat_str(n) ==
    IF n < 10 THEN <<Digits[n + 1]>>
    ELSE nat_str(n \div 10) \o <<Digits[(n % 10) + 1]>>

int_str(n) == IF n < 0 THEN <<"-">> \o nat_str(0 - n) ELSE nat_str(n)

\* int(s) of a str: surrounding whitespace and one sign are allowed
RECURSIVE digits_value(_)
digits_value(ds) ==
    IF ds = <<>> THEN 0
    ELSE 10 * digits_value(SubSeq(ds, 1, Len(ds) - 1))
         + (IndexIn(ds[Len(ds)], Digits) - 1)

unsigned(s) == IF Len(s) > 0 /\ s[1] \in {"-", "+"} THEN Tail(s) ELSE s

\* int(s) does not raise ValueError
int_parses(s) ==
    /\ Len(unsigned(strip(s))) > 0
    /\ \A i \in 1..Len(unsigned(strip(s))) : IndexIn(unsigned(strip(s))[i], Digits) > 0

int_of(s) ==
    IF Len(strip(s)) > 0 /\ strip(s)[1] = "-"
    THEN 0 - digits_value(unsigned(strip(s)))
    ELSE digits_value(unsigned(strip(s)))

(***************************************************************************)
(* Python values                                                           *)
(***************************************************************************)
PyNone    == [t |-> "none", s |-> <<>>, n |-> 0]

PyStr(s)  == [t |-> "str",  s |-> s,    n |-> 0]

PyInt(n)  == [t |-> "int",  s |-> <<>>, n |-> n]

PyBool(b) == [t |-> "bool", s |-> <<>>, n |-> IF b THEN 1 ELSE 0]

\* a float with two decimals, held as its hundredths: 1.5 is PyFloat(150)
PyFloat(h) == [t |-> "float", s |-> <<>>, n |-> h]

\* float("nan"), what pandas puts in a numeric column for a NULL
PyNaN == [t |-> "nan", s |-> <<>>, n |-> 0]

\* datetime.date(y, m, d), what st.date_input returns
PyDate(y, m, d) == [t |-> "date", s |-> <<>>, n |-> (y * 10000) + (m * 100) + d]

\* repr of a float with two decimals: 0.0, 1.5, 12.34, -0.05
float_str(h) ==
    LET a == IF h < 0 THEN 0 - h ELSE h
        frac == IF a % 10 = 0 THEN nat_str((a % 100) \div 10)
                ELSE <<Digits[((a % 100) \div 10) + 1], Digits[(a % 10) + 1]>>
    IN  (IF h < 0 THEN <<"-">> ELSE <<>>) \o nat_str(a \div 100) \o <<".">> \o frac

\* date.isoformat(): YYYY-MM-DD, zero padded
date_str(n) ==
    LET y == n \div 10000
        m == (n \div 100) % 100
        d == n % 100
        pad2(k) == IF k < 10 THEN <<"0">> \o nat_str(k) ELSE nat_str(k)
        pad4(k) == IF k < 10 THEN <<"0","0","0">> \o nat_str(k)
                   ELSE IF k < 100 THEN <<"0","0">> \o nat_str(k)
                   ELSE IF k < 1000 THEN <<"0">> \o nat_str(k)
                   ELSE nat_str(k)
    IN  pad4(y) \o <<"-">> \o pad2(m) \o <<"-">> \o pad2(d)

\* float(s) of a str does not raise ValueError, for a str without an
\* exponent and other than the words inf and nan: digits with at most one
\* point and at most two decimals, one sign, surrounding whitespace
float_parses(s) ==
    LET b == unsigned(strip(s))
        points == {i \in 1..Len(b) : b[i] = "."}
    IN  /\ Cardinality(points) <= 1
        /\ \E i \in 1..Len(b) : IndexIn(b[i], Digits) > 0
        /\ \A i \in 1..Len(b) : b[i] = "." \/ IndexIn(b[i], Digits) > 0
        /\ \A i \in points : Len(b) - i <= 2

\* float(s) of such a str, in hundredths
float_of(s) ==
    LET b == unsigned(strip(s))
        points == {i \in 1..Len(b) : b[i] = "."}
        dot == IF points = {} THEN Len(b) + 1 ELSE CHOOSE i \in points : TRUE
        whole == digits_value(SubSeq(b, 1, dot - 1))
        decimals == SubSeq(b, dot + 1, Len(b))
        frac == IF Len(decimals) = 0 THEN 0
                ELSE IF Len(decimals) = 1 THEN 10 * digits_value(decimals)
                ELSE digits_value(decimals)
        a == (100 * whole) + frac
    IN  IF Len(strip(s)) > 0 /\ strip(s)[1] = "-" THEN 0 - a ELSE a

\* int(x) of a float: truncation towards zero
int_of_float(h) == IF h < 0 THEN 0 - ((0 - h) \div 100) ELSE h \div 100

\* pd.isna(val) of a scalar
isna(val) == val.t \in {"none", "nan"}

isinstance_str(val) == val.t = "str"

\* str(val), also what an f-string substitutes for {val}
py_str(val) ==
    CASE val.t = "none" -> <<"N","o","n","e">>
      [] val.t = "str"  -> val.s
      [] val.t = "int"  -> int_str(val.n)
      [] val.t = "bool" -> IF val.n = 1 THEN <<"T","r","u","e">>
                                        ELSE <<"F","a","l","s","e">>
      [] val.t = "float" -> float_str(val.n)
      [] val.t = "nan"   -> <<"n","a","n">>
      [] val.t = "date"  -> date_str(val.n)

\* the "-- Select --" placeholder of the add form
SELECT_PLACEHOLDER == PyStr(<<"-","-"," ","S","e","l","e","c","t"," ","-","-">>)

EMPTY == PyStr(<<>>)

NULL == <<"N","U","L","L">>

(***************************************************************************)
(* dicts as sequences of <<key, value>>                                    *)
(***************************************************************************)
keys(d) == [i \in 1..Len(d) |-> d[i][1]]

has_key(d, k) == \E i \in 1..Len(d) : d[i][1] = k

\* d.get(k, default)
get(d, k, default) ==
    IF has_key(d, k) THEN d[CHOOSE i \in 1..Len(d) : d[i][1] = k][2]
    ELSE default

\* d[k] = v for a key that is present
set_item(d, k, v) ==
    [i \in 1..Len(d) |-> IF d[i][1] = k THEN <<k, v>> ELSE d[i]]

(***************************************************************************)
(* Ticket format                                                           *)
(***************************************************************************)
MDAR_PREFIX == <<"M","D","A","R","-">>

is_digit(c) == IndexIn(c, Digits) > 0

\* re.match(r'^MDAR-\d+$', s): the prefix, one or more digits, then the end
\* of the string or a single newline that ends the string
re_match_ticket(s) ==
    LET body == IF Len(s) > 0 /\ s[Len(s)] = "\n"
                THEN SubSeq(s, 1, Len(s) - 1) ELSE s
        fits(b) == /\ Len(b) > Len(MDAR_PREFIX)
                   /\ SubSeq(b, 1, Len(MDAR_PREFIX)) = MDAR_PREFIX
                   /\ \A i \in (Len(MDAR_PREFIX) + 1)..Len(b) : is_digit(b[i])
    IN  fits(s) \/ fits(body)

\* validate_ticket_format without ticket.strip()
validate_ticket_format_unstripped(tk) ==
    IF (tk.t = "none") \/ (tk.t = "str" /\ tk.s = <<>>)
       \/ (tk.t = "int" /\ tk.n = 0) \/ (tk.t = "bool" /\ tk.n = 0)
       \/ ~isinstance_str(tk)
    THEN FALSE
    ELSE re_match_ticket(tk.s)

\* validate_ticket_format(ticket) for any Python value
validate_ticket_format(tk) ==
    IF (tk.t = "none") \/ (tk.t = "str" /\ tk.s = <<>>)
       \/ (tk.t = "int" /\ tk.n = 0) \/ (tk.t = "bool" /\ tk.n = 0)
       \/ ~isinstance_str(tk)
    THEN FALSE
    ELSE re_match_ticket(strip(tk.s))

(***************************************************************************)
(* SQL construction                                                        *)
(***************************************************************************)
NoWhere == [col |-> "", val |-> <<>>]

NoQuery == [op |-> "none", columns |-> <<>>, vals |-> <<>>, where |-> NoWhere]

\* a call that has not been made yet
Pending == [raised |-> "pending", q |-> NoQuery]

Raised(exc) == [raised |-> exc, q |-> NoQuery]

Executes(q) == [raised |-> "", q |-> q]

\* insert_value with the quote doubling left out
insert_value_unescaped(val) ==
    IF val = PyNone \/ val = EMPTY THEN NULL
    ELSE IF isinstance_str(val) THEN <<"'">> \o val.s \o <<"'">>
    ELSE py_str(val)

\* the loop body of insert_record: one entry of the VALUES list
insert_value(val) ==
    IF val = PyNone \/ val = EMPTY THEN NULL
    ELSE IF isinstance_str(val) THEN <<"'">> \o replace_quote(val.s) \o <<"'">>
    ELSE py_str(val)

\* update_value with the empty string written as a literal, not as NULL
update_value_empty_literal(val) ==
    IF val = PyNone THEN NULL
    ELSE IF isinstance_str(val) THEN <<"'">> \o replace_quote(val.s) \o <<"'">>
    ELSE py_str(val)

\* the loop body of update_record: the value of one SET clause
update_value(val) ==
    IF val = PyNone \/ val = EMPTY THEN NULL
    ELSE IF isinstance_str(val) THEN <<"'">> \o replace_quote(val.s) \o <<"'">>
    ELSE py_str(val)

\* insert_record without its first loop
clean_placeholders_kept(rd) == rd

\* insert_record, first loop: placeholders become empty strings
clean_placeholders(rd) ==
    [i \in 1..Len(rd) |->
        IF rd[i][2] = SELECT_PLACEHOLDER THEN <<rd[i][1], EMPTY>> ELSE rd[i]]

\* insert_record without the "Validate and clean ticket field" block
insert_record_unvalidated(rd) ==
    Executes([op |-> "INSERT", columns |-> keys(clean_placeholders(rd)),
              vals |-> [i \in 1..Len(rd) |-> insert_value(clean_placeholders(rd)[i][2])],
              where |-> NoWhere])

\* masterfile insert_record, up to the statement handed to cursor.execute
insert_record(rd) ==
    LET cleaned == clean_placeholders(rd)
    IN  IF has_key(cleaned, "ticket")
        THEN IF ~isinstance_str(get(cleaned, "ticket", PyNone))
             THEN Raised("AttributeError")
             ELSE LET tk == PyStr(strip(get(cleaned, "ticket", PyNone).s))
                      rd2 == set_item(cleaned, "ticket", tk)
                  IN  IF ~validate_ticket_format(tk)
                      THEN Raised("ValueError")
                      ELSE Executes([op |-> "INSERT", columns |-> keys(rd2),
                                     vals |-> [i \in 1..Len(rd2) |-> insert_value(rd2[i][2])],
                                     where |-> NoWhere])
        ELSE Executes([op |-> "INSERT", columns |-> keys(cleaned),
                       vals |-> [i \in 1..Len(cleaned) |-> insert_value(cleaned[i][2])],
                       where |-> NoWhere])

\* update_record without the "Validate and clean ticket field" block
update_record_unvalidated(rd, where_clause) ==
    Executes([op |-> "UPDATE", columns |-> keys(rd),
              vals |-> [i \in 1..Len(rd) |-> update_value(rd[i][2])],
              where |-> where_clause])

\* masterfile update_record, up to the statement handed to cursor.execute
update_record(rd, where_clause) ==
    IF has_key(rd, "ticket")
    THEN IF ~isinstance_str(get(rd, "ticket", PyNone))
         THEN Raised("AttributeError")
         ELSE LET tk == PyStr(strip(get(rd, "ticket", PyNone).s))
                  rd2 == set_item(rd, "ticket", tk)
              IN  IF ~validate_ticket_format(tk)
                  THEN Raised("ValueError")
                  ELSE Executes([op |-> "UPDATE", columns |-> keys(rd2),
                                 vals |-> [i \in 1..Len(rd2) |-> update_value(rd2[i][2])],
                                 where |-> where_clause])
    ELSE Executes([op |-> "UPDATE", columns |-> keys(rd),
                   vals |-> [i \in 1..Len(rd) |-> update_value(rd[i][2])],
                   where |-> where_clause])

\* delete_record
delete_record(where_clause) ==
    Executes([op |-> "DELETE", columns |-> <<>>, vals |-> <<>>,
              where |-> where_clause])

\* tfe_value with the empty string written as a literal, not as NULL
tfe_value_empty_literal(val) ==
    IF val = PyNone THEN NULL
    ELSE IF isinstance_str(val) THEN <<"'">> \o replace_quote(val.s) \o <<"'">>
    ELSE py_str(val)

\* table_form_editor.py: one entry of the VALUES list / one SET value
tfe_value(val) ==
    IF val = PyNone \/ val = EMPTY THEN NULL
    ELSE IF isinstance_str(val) THEN <<"'">> \o replace_quote(val.s) \o <<"'">>
    ELSE py_str(val)

\* table_form_editor.py insert_record
tfe_insert_record(rd) ==
    Executes([op |-> "INSERT", columns |-> keys(rd),
              vals |-> [i \in 1..Len(rd) |-> tfe_value(rd[i][2])],
              where |-> NoWhere])

\* table_form_editor.py update_record
tfe_update_record(rd, where_clause) ==
    Executes([op |-> "UPDATE", columns |-> keys(rd),
              vals |-> [i \in 1..Len(rd) |-> tfe_value(rd[i][2])],
              where |-> where_clause])

(***************************************************************************)
(* Idle values of the variables a specification does not use               *)
(***************************************************************************)
Absent == [present |-> FALSE, v |-> <<>>]

Present(v) == [present |-> TRUE, v |-> v]

PageIdle ==
    /\ db = <<>>
    /\ db_schema = <<>>
    /\ table_data = Absent
    /\ table_schema = Absent
    /\ connection_established = FALSE
    /\ query = NoQuery
    /\ message = "none"
    /\ selected_record = Absent
    /\ failure = "none"

SqlIdle ==
    /\ editor = "none"
    /\ record_data = <<>>
    /\ sql_insert = Pending
    /\ sql_update = Pending

ValidateIdle == validation = [called |-> FALSE, ok |-> FALSE, kind |-> "", field |-> ""]

ClassifyIdle == column_type = <<>> /\ field_kind = "none"

TicketIdle == ticket = PyNone /\ ticket_valid = [called |-> FALSE, ok |-> FALSE]

SeedIdle == field_current = PyNone /\ field_value = PyNone

DropdownIdle == field_column = "" /\ field_suffix = "" /\ field_options = <<>>

FormIdle == table_name = "" /\ interface = "none" /\ refresh_shown = FALSE

McpIdle == mcp_session_id = PyNone /\ mcp_calls = <<>>

(***************************************************************************)
(* Field kind chosen by render_form_field from the declared type           *)
(***************************************************************************)
kw_int       == <<"i","n","t">>

kw_bigint    == <<"b","i","g","i","n","t">>

kw_float     == <<"f","l","o","a","t">>

kw_double    == <<"d","o","u","b","l","e">>

kw_decimal   == <<"d","e","c","i","m","a","l">>

kw_boolean   == <<"b","o","o","l","e","a","n">>

kw_date      == <<"d","a","t","e">>

kw_timestamp == <<"t","i","m","e","s","t","a","m","p">>

\* the chain without .lower()
render_form_field_kind_cased(ctype) ==
    LET t == ctype
    IN  IF contains(t, kw_int) \/ contains(t, kw_bigint) THEN "Integer"
        ELSE IF contains(t, kw_float) \/ contains(t, kw_double)
                \/ contains(t, kw_decimal) THEN "Float"
        ELSE IF contains(t, kw_boolean) THEN "Boolean"
        ELSE IF contains(t, kw_date) /\ ~contains(t, kw_timestamp) THEN "Date"
        ELSE IF contains(t, kw_timestamp) THEN "Timestamp"
        ELSE "Text"

\* the chain with the boolean test moved to the front
render_form_field_kind_boolean_first(ctype) ==
    LET t == lower(ctype)
    IN  IF contains(t, kw_boolean) THEN "Boolean"
        ELSE IF contains(t, kw_int) \/ contains(t, kw_bigint) THEN "Integer"
        ELSE IF contains(t, kw_float) \/ contains(t, kw_double)
                \/ contains(t, kw_decimal) THEN "Float"
        ELSE IF contains(t, kw_date) /\ ~contains(t, kw_timestamp) THEN "Date"
        ELSE IF contains(t, kw_timestamp) THEN "Timestamp"
        ELSE "Text"

\* the if/elif chain on column_type.lower(): which input control is rendered
render_form_field_kind(ctype) ==
    LET t == lower(ctype)
    IN  IF contains(t, kw_int) \/ contains(t, kw_bigint) THEN "Integer"
        ELSE IF contains(t, kw_float) \/ contains(t, kw_double)
                \/ contains(t, kw_decimal) THEN "Float"
        ELSE IF contains(t, kw_boolean) THEN "Boolean"
        ELSE IF contains(t, kw_date) /\ ~contains(t, kw_timestamp) THEN "Date"
        ELSE IF contains(t, kw_timestamp) THEN "Timestamp"
        ELSE "Text"

(***************************************************************************)
(* validate_new_record                                                     *)
(***************************************************************************)
\* bool(val): Python truthiness
truthy(val) ==
    CASE val.t = "none" -> FALSE
      [] val.t = "str"  -> val.s # <<>>
      [] val.t \in {"nan", "date"} -> TRUE
      [] OTHER          -> val.n # 0

optional_fields == {"root_cause", "timeline_year", "timeline_month", "timeline_quarter"}

\* the mandatory test without the placeholder comparison
mandatory_field_empty_no_placeholder(field, val) ==
    /\ field \notin optional_fields
    /\ \/ val = PyNone
       \/ isinstance_str(val) /\ strip(val.s) = <<>>

\* the test of the mandatory loop on one item of record_data
mandatory_field_empty(field, val) ==
    /\ field \notin optional_fields
    /\ \/ val = PyNone
       \/ /\ isinstance_str(val)
          /\ (strip(val.s) = <<>> \/ val = SELECT_PLACEHOLDER)

\* the mandatory loop reporting the last empty field instead of the first
mandatory_loop_exit_last(rd) ==
    IF \E i \in 1..Len(rd) : mandatory_field_empty(rd[i][1], rd[i][2])
    THEN CHOOSE i \in 1..Len(rd) :
            /\ mandatory_field_empty(rd[i][1], rd[i][2])
            /\ \A j \in (i+1)..Len(rd) : ~mandatory_field_empty(rd[j][1], rd[j][2])
    ELSE 0

\* the item at which the mandatory loop returns (0: the loop runs through)
mandatory_loop_exit(rd) ==
    IF \E i \in 1..Len(rd) : mandatory_field_empty(rd[i][1], rd[i][2])
    THEN CHOOSE i \in 1..Len(rd) :
            /\ mandatory_field_empty(rd[i][1], rd[i][2])
            /\ \A j \in 1..(i-1) : ~mandatory_field_empty(rd[j][1], rd[j][2])
    ELSE 0

\* "Clean up placeholder values" of the three timeline fields
clean_timeline(val) == IF val = SELECT_PLACEHOLDER THEN EMPTY ELSE val

\* the timeline check demanding the month and the quarter both
timeline_rule_broken_either(year, month, quarter) ==
    /\ truthy(year) /\ isinstance_str(year) /\ strip(year.s) # <<>>
    /\ \/ (~truthy(month) \/ (isinstance_str(month) /\ strip(month.s) = <<>>))
       \/ (~truthy(quarter) \/ (isinstance_str(quarter) /\ strip(quarter.s) = <<>>))

\* the nested if of the timeline check, on the cleaned values
timeline_rule_broken(year, month, quarter) ==
    /\ truthy(year) /\ isinstance_str(year) /\ strip(year.s) # <<>>
    /\ (~truthy(month) \/ (isinstance_str(month) /\ strip(month.s) = <<>>))
    /\ (~truthy(quarter) \/ (isinstance_str(quarter) /\ strip(quarter.s) = <<>>))

Verdict(ok, kind, field) == [called |-> TRUE, ok |-> ok, kind |-> kind, field |-> field]

\* validate_new_record(record_data) -> (is_valid, error_message); the
\* message is kept as its kind and the field it names
validate_new_record(rd) ==
    IF mandatory_loop_exit(rd) # 0
    THEN Verdict(FALSE, "mandatory", rd[mandatory_loop_exit(rd)][1])
    ELSE IF timeline_rule_broken(clean_timeline(get(rd, "timeline_year", EMPTY)),
                                 clean_timeline(get(rd, "timeline_month", EMPTY)),
                                 clean_timeline(get(rd, "timeline_quarter", EMPTY)))
         THEN Verdict(FALSE, "timeline", "")
         ELSE Verdict(TRUE, "", "")

(***************************************************************************)
(* SpecSql: insert_record and update_record of both editors, called on     *)
(* one record_data                                                         *)
(***************************************************************************)
SqlColumns == {"ticket", "dq_poc", "notes"}

SqlValues ==
    { PyNone, EMPTY, SELECT_PLACEHOLDER,
      PyStr(<<"O","'","B","r","i","e","n">>),
      PyStr(<<"'","'">>),
      PyStr(<<"M","D","A","R","-","1">>),
      PyStr(<<" ","M","D","A","R","-","1"," ">>),
      PyStr(<<"G","i","b","e">>),
      PyInt(0), PyInt(-12), PyInt(305), PyBool(TRUE), PyBool(FALSE),
      PyFloat(150), PyFloat(-5), PyDate(2026, 11, 3) }

\* dicts of 1..MaxFields distinct columns, in any order
SqlRecords ==
    UNION { { rd \in [1..n -> SqlColumns \X SqlValues] :
                \A i, j \in 1..n : i # j => rd[i][1] # rd[j][1] }
            : n \in 1..MaxFields }

\* the where_clause argument of the update_record calls
WHERE_ARG == [col |-> "id", val |-> <<"1">>]

InitSql ==
    /\ PageIdle /\ ValidateIdle /\ ClassifyIdle /\ TicketIdle /\ SeedIdle /\ DropdownIdle /\ FormIdle /\ McpIdle
    /\ editor \in {"masterfile", "generic"}
    /\ record_data \in SqlRecords
    /\ sql_insert = Pending
    /\ sql_update = Pending

InsertRecord ==
    /\ editor = "masterfile"
    /\ sql_insert = Pending
    /\ sql_insert' = insert_record(record_data)
    /\ UNCHANGED <<pageVars, seedVars, dropdownVars, formVars, mcpVars, editor, record_data, sql_update, validation,
                   column_type, field_kind, ticket, ticket_valid>>

UpdateRecord ==
    /\ editor = "masterfile"
    /\ sql_update = Pending
    /\ sql_update' = update_record(record_data, WHERE_ARG)
    /\ UNCHANGED <<pageVars, seedVars, dropdownVars, formVars, mcpVars, editor, record_data, sql_insert, validation,
                   column_type, field_kind, ticket, ticket_valid>>

TfeInsertRecord ==
    /\ editor = "generic"
    /\ sql_insert = Pending
    /\ sql_insert' = tfe_insert_record(record_data)
    /\ UNCHANGED <<pageVars, seedVars, dropdownVars, formVars, mcpVars, editor, record_data, sql_update, validation,
                   column_type, field_kind, ticket, ticket_valid>>

TfeUpdateRecord ==
    /\ editor = "generic"
    /\ sql_update = Pending
    /\ sql_update' = tfe_update_record(record_data, WHERE_ARG)
    /\ UNCHANGED <<pageVars, seedVars, dropdownVars, formVars, mcpVars, editor, record_data, sql_insert, validation,
                   column_type, field_kind, ticket, ticket_valid>>

NextSql == InsertRecord \/ UpdateRecord \/ TfeInsertRecord \/ TfeUpdateRecord

SpecSql == InitSql /\ [][NextSql]_vars

(***************************************************************************)
(* Properties of the SQL construction                                      *)
(***************************************************************************)
\* number of single quotes among the first k characters of s
QuotesBefore(s, k) == Cardinality({j \in 1..k : s[j] = "'"})

\* e is s with every single quote doubled, stated position by position
QuoteDoubled(s, e) ==
    /\ Len(e) = Len(s) + QuotesBefore(s, Len(s))
    /\ \A k \in 1..Len(s) :
         /\ e[k + QuotesBefore(s, k - 1)] = s[k]
         /\ s[k] = "'" => e[k + QuotesBefore(s, k - 1) + 1] = "'"

\* the three-way rendering rule of the specification, as a relation between
\* a value and its SQL text
RenderedByRule(val, text) ==
    IF val = PyNone \/ val = EMPTY THEN text = NULL
    ELSE IF val.t = "str"
         THEN /\ Len(text) >= 2
              /\ text[1] = "'" /\ text[Len(text)] = "'"
              /\ QuoteDoubled(val.s, SubSeq(text, 2, Len(text) - 1))
         ELSE text = py_str(val)

\* what the masterfile insert_record makes of a value before rendering it
InsertNormalised(col, val) ==
    IF val = SELECT_PLACEHOLDER THEN EMPTY
    ELSE IF col = "ticket" /\ val.t = "str" THEN PyStr(strip(val.s))
    ELSE val

\* C1 as stated: every INSERT renders every value of record_data, in record
\* order, by the three-way rule (NULL / doubled-quote literal / plain form).
C1_AsStated ==
    sql_insert.raised = "" =>
        /\ sql_insert.q.columns = keys(record_data)
        /\ Len(sql_insert.q.vals) = Len(record_data)
        /\ \A i \in 1..Len(record_data) :
              RenderedByRule(record_data[i][2], sql_insert.q.vals[i])

\* C1 amended: every INSERT renders every value of record_data, in record
\* order, by the three-way rule; in the masterfile editor the rule applies
\* after the "-- Select --" placeholder has become the empty string (so it
\* renders NULL) and the ticket has been trimmed.
C1_InsertRendering ==
    sql_insert.raised = "" =>
        /\ sql_insert.q.op = "INSERT"
        /\ sql_insert.q.columns = keys(record_data)
        /\ Len(sql_insert.q.vals) = Len(record_data)
        /\ \A i \in 1..Len(record_data) :
              RenderedByRule(
                  IF editor = "masterfile"
                  THEN InsertNormalised(record_data[i][1], record_data[i][2])
                  ELSE record_data[i][2],
                  sql_insert.q.vals[i])

\* C1 witness: a masterfile INSERT of O'Brien next to a placeholder
C1_Witness ==
    /\ editor = "masterfile"
    /\ sql_insert.raised = ""
    /\ \E i, j \in 1..Len(record_data) :
          /\ record_data[i][2] = PyStr(<<"O","'","B","r","i","e","n">>)
          /\ sql_insert.q.vals[i] = <<"'","O","'","'","B","r","i","e","n","'">>
          /\ record_data[j][2] = SELECT_PLACEHOLDER
          /\ sql_insert.q.vals[j] = NULL

\* C3 as stated: for every record, the i-th SET value of the UPDATE equals
\* the i-th VALUES entry of the INSERT built from the same record.
C3_AsStated ==
    (sql_insert.raised = "" /\ sql_update.raised = "") =>
        sql_update.q.vals = sql_insert.q.vals

\* C3 amended: for every record that holds no "-- Select --" placeholder,
\* the i-th SET value of the UPDATE equals the i-th VALUES entry of the
\* INSERT built from the same record, and both follow the three-way rule;
\* the generic editor agrees on every record.
C3_UpdateRendersAsInsert ==
    (/\ sql_insert.raised = "" /\ sql_update.raised = ""
     /\ (editor = "masterfile" =>
            \A i \in 1..Len(record_data) : record_data[i][2] # SELECT_PLACEHOLDER))
    => /\ sql_update.q.op = "UPDATE"
       /\ sql_update.q.columns = sql_insert.q.columns
       /\ Len(sql_update.q.vals) = Len(record_data)
       /\ \A i \in 1..Len(record_data) :
             sql_update.q.vals[i] = sql_insert.q.vals[i]

\* C3 witness: both statements built from a record with a quoted string
\* and an empty value
C3_Witness ==
    /\ editor = "masterfile"
    /\ sql_insert.raised = "" /\ sql_update.raised = ""
    /\ \E i, j \in 1..Len(record_data) :
          /\ record_data[i][2] = PyStr(<<"O","'","B","r","i","e","n">>)
          /\ sql_update.q.vals[i] = <<"'","O","'","'","B","r","i","e","n","'">>
          /\ record_data[j][2] = EMPTY
          /\ sql_update.q.vals[j] = NULL

(***************************************************************************)
(* SpecTicket: validate_ticket_format called on one argument               *)
(***************************************************************************)
TicketLeads == { <<>>, <<" ">>, <<"\t">> }

TicketHeads == { MDAR_PREFIX, <<"M","D","A","R">>, <<"m","d","a","r","-">>,
                 <<"M","D","A","R","-"," ">> }

TicketNumChars == {"1", "2", "3", "4", "A"}

TicketTrails == { <<>>, <<" ">> }

TicketNumbers == UNION { [1..n -> TicketNumChars] : n \in 0..MaxDigits }

\* arguments that are not a str
TicketOthers == { PyNone, PyInt(0), PyInt(7) }

InitTicket ==
    /\ PageIdle /\ SqlIdle /\ ValidateIdle /\ ClassifyIdle /\ SeedIdle /\ DropdownIdle /\ FormIdle /\ McpIdle
    /\ \/ ticket \in TicketOthers
       \/ \E lead \in TicketLeads, head \in TicketHeads,
             num \in TicketNumbers, trail \in TicketTrails :
             ticket = PyStr(lead \o head \o num \o trail)
    /\ ticket_valid = [called |-> FALSE, ok |-> FALSE]

ValidateTicketFormat ==
    /\ ~ticket_valid.called
    /\ ticket_valid' = [called |-> TRUE, ok |-> validate_ticket_format(ticket)]
    /\ UNCHANGED <<pageVars, seedVars, dropdownVars, formVars, mcpVars, editor, record_data, sql_insert, sql_update,
                   validation, column_type, field_kind, ticket>>

NextTicket == ValidateTicketFormat

SpecTicket == InitTicket /\ [][NextTicket]_vars

MDAR_1234 == <<"M","D","A","R","-","1","2","3","4">>

\* the characters after the first hyphen of s (empty when s has no hyphen)
NumberPart(s) ==
    IF \E i \in 1..Len(s) : s[i] = "-"
    THEN LET h == CHOOSE i \in 1..Len(s) :
                     s[i] = "-" /\ \A j \in 1..(i-1) : s[j] # "-"
         IN  SubSeq(s, h + 1, Len(s))
    ELSE <<>>

HasNonDigitNumber(s) ==
    \E i \in 1..Len(NumberPart(s)) : ~is_digit(NumberPart(s)[i])

LacksHyphen(s) == \A i \in 1..Len(s) : s[i] # "-"

\* C9 as stated: MDAR-1234 passes; a non-digit in the number part, a missing
\* hyphen or a leading space each make the check fail.
C9_AsStated ==
    (ticket_valid.called /\ ticket.t = "str") =>
        /\ ticket.s = MDAR_1234 => ticket_valid.ok
        /\ HasNonDigitNumber(strip(ticket.s)) => ~ticket_valid.ok
        /\ LacksHyphen(ticket.s) => ~ticket_valid.ok
        /\ (Len(ticket.s) > 0 /\ ticket.s[1] = " ") => ~ticket_valid.ok

\* C9 amended: MDAR-1234 passes, also with surrounding whitespace (the
\* check trims first, so " MDAR-1234" passes); a string whose trimmed form
\* has a non-digit in the number part, or that lacks the hyphen, fails.
C9_TicketFormat ==
    (ticket_valid.called /\ ticket.t = "str") =>
        /\ strip(ticket.s) = MDAR_1234 => ticket_valid.ok
        /\ HasNonDigitNumber(strip(ticket.s)) => ~ticket_valid.ok
        /\ LacksHyphen(ticket.s) => ~ticket_valid.ok

\* C9 witness: the check has passed " MDAR-1234"
C9_Witness ==
    /\ ticket_valid.called
    /\ ticket = PyStr(<<" ">> \o MDAR_1234)
    /\ ticket_valid.ok

(***************************************************************************)
(* SpecClassify: render_form_field called on one declared type             *)
(***************************************************************************)
TypeFragments ==
    { kw_int, kw_float, kw_double, kw_decimal, kw_boolean, kw_date,
      kw_timestamp, <<"b","i","g">>, <<"v","a","r","c","h","a","r">>,
      <<"s","t","r","i","n","g">>, <<"(","1","0",",","2",")">>,
      <<"(","5","0",")">>, <<"_">>, <<"e","r","v","a","l">> }

RECURSIVE Concat(_)
Concat(ss) == IF ss = <<>> THEN <<>> ELSE Head(ss) \o Concat(Tail(ss))

LowerTypes ==
    { Concat(ws) : ws \in UNION { [1..n -> TypeFragments] : n \in 1..MaxWords } }

\* first letter in upper case, the rest as given
Capitalised(s) == [i \in 1..Len(s) |-> IF i = 1 THEN upper(s)[1] ELSE s[i]]

TypeStrings == LowerTypes \cup { upper(s) : s \in LowerTypes }
               \cup { Capitalised(s) : s \in LowerTypes }

InitClassify ==
    /\ PageIdle /\ SqlIdle /\ ValidateIdle /\ TicketIdle /\ SeedIdle /\ DropdownIdle /\ FormIdle /\ McpIdle
    /\ column_type \in TypeStrings
    /\ field_kind = "none"

RenderFormField ==
    /\ field_kind = "none"
    /\ field_kind' = render_form_field_kind(column_type)
    /\ UNCHANGED <<pageVars, seedVars, dropdownVars, formVars, mcpVars, editor, record_data, sql_insert, sql_update,
                   validation, column_type, ticket, ticket_valid>>

NextClassify == RenderFormField

SpecClassify == InitClassify /\ [][NextClassify]_vars

FieldKinds == {"Integer", "Float", "Boolean", "Date", "Timestamp", "Text"}

\* the keywords of each kind, as the specification lists them
KindKeywords(kind) ==
    CASE kind = "Integer"   -> {kw_int, kw_bigint}
      [] kind = "Float"     -> {kw_float, kw_double, kw_decimal}
      [] kind = "Boolean"   -> {kw_boolean}
      [] kind = "Date"      -> {kw_date}
      [] kind = "Timestamp" -> {kw_timestamp}
      [] OTHER              -> {}

\* the declared type, ignoring case, contains a keyword of the kind
HasKeyword(ctype, kind) ==
    \E k \in KindKeywords(kind) : contains(lower(ctype), k)

\* the first kind of an order whose keyword the type contains, else Text
RECURSIVE FirstMatch(_, _)
FirstMatch(ctype, order) ==
    IF order = <<>> THEN "Text"
    ELSE IF HasKeyword(ctype, Head(order)) THEN Head(order)
    ELSE FirstMatch(ctype, Tail(order))

\* C4: classification is total and independent of letter case, a type with
\* no keyword is Text, and DECIMAL(10,2) is Float, BIGINT is Integer,
\* TIMESTAMP is Timestamp, VARCHAR(50) is Text.
C4_ClassifyTotal ==
    field_kind # "none" =>
        /\ field_kind \in FieldKinds
        /\ field_kind = render_form_field_kind(upper(column_type))
        /\ field_kind = render_form_field_kind(lower(column_type))
        /\ (\A kind \in FieldKinds : ~HasKeyword(column_type, kind))
              => field_kind = "Text"
        /\ column_type = upper(kw_decimal \o <<"(","1","0",",","2",")">>)
              => field_kind = "Float"
        /\ column_type = upper(kw_bigint) => field_kind = "Integer"
        /\ column_type = upper(kw_timestamp) => field_kind = "Timestamp"
        /\ column_type = upper(<<"v","a","r","c","h","a","r","(","5","0",")">>)
              => field_kind = "Text"

\* C4 witness: DECIMAL(10,2) has been classified as Float
C4_Witness ==
    /\ column_type = upper(kw_decimal \o <<"(","1","0",",","2",")">>)
    /\ field_kind = "Float"

\* C5 as stated: the kind is the first match in the order integer, float,
\* boolean, date, timestamp, text, and a type containing "timestamp" is
\* never Date.
C5_AsStated ==
    field_kind # "none" =>
        /\ field_kind = FirstMatch(column_type,
               <<"Integer", "Float", "Boolean", "Date", "Timestamp">>)
        /\ HasKeyword(column_type, "Timestamp") => field_kind # "Date"

\* C5 amended: the kind is the first match in the order integer, float,
\* boolean, timestamp, date, text (timestamp before date), so a type
\* containing "timestamp" is never Date.
C5_ClassifyPriority ==
    field_kind # "none" =>
        /\ field_kind = FirstMatch(column_type,
               <<"Integer", "Float", "Boolean", "Timestamp", "Date">>)
        /\ HasKeyword(column_type, "Timestamp") => field_kind # "Date"

\* C5 witness: a type with the date and the timestamp keyword is Timestamp
C5_Witness ==
    /\ HasKeyword(column_type, "Date") /\ HasKeyword(column_type, "Timestamp")
    /\ ~HasKeyword(column_type, "Integer")
    /\ field_kind = "Timestamp"

(***************************************************************************)
(* SpecValidate: validate_new_record called on one record                  *)
(***************************************************************************)
\* column orders of the records handed to validate_new_record
ValidateOrders ==
    { <<"ticket", "dq_poc", "qty", "root_cause",
        "timeline_year", "timeline_month", "timeline_quarter">>,
      <<"timeline_quarter", "timeline_year", "root_cause", "qty",
        "dq_poc", "ticket", "timeline_month">>,
      <<"dq_poc", "ticket", "timeline_year", "timeline_quarter">>,
      <<"ticket", "dq_poc">> }

TextInputs == { PyNone, EMPTY, PyStr(<<" ">>), SELECT_PLACEHOLDER }

ValidateValues(field) ==
    CASE field = "ticket"           -> TextInputs \cup {PyStr(<<"M","D","A","R","-","1">>)}
      [] field = "dq_poc"       -> TextInputs \cup {PyStr(<<"G","i","b","e">>)}
      [] field = "qty"              -> {PyInt(0), PyInt(5)}
      [] field = "root_cause"       -> {PyNone, EMPTY, PyStr(<<"x">>)}
      [] field = "timeline_year"    -> TextInputs \cup {PyStr(<<"2","0","2","6">>)}
      [] field = "timeline_month"   -> TextInputs \cup {PyStr(<<"1","2">>)}
      [] field = "timeline_quarter" -> TextInputs \cup {PyStr(<<"Q","1">>)}

\* every record with the columns of order, in that order
RECURSIVE RecordsOver(_)
RecordsOver(order) ==
    IF order = <<>> THEN { <<>> }
    ELSE { << <<Head(order), v>> >> \o rest :
             v \in ValidateValues(Head(order)), rest \in RecordsOver(Tail(order)) }

InitValidate ==
    /\ PageIdle /\ ClassifyIdle /\ TicketIdle /\ SeedIdle /\ DropdownIdle /\ FormIdle /\ McpIdle
    /\ editor = "masterfile"
    /\ \E order \in ValidateOrders : record_data \in RecordsOver(order)
    /\ sql_insert = Pending
    /\ sql_update = Pending
    /\ validation = [called |-> FALSE, ok |-> FALSE, kind |-> "", field |-> ""]

ValidateNewRecord ==
    /\ ~validation.called
    /\ validation' = validate_new_record(record_data)
    /\ UNCHANGED <<pageVars, seedVars, dropdownVars, formVars, mcpVars, editor, record_data, sql_insert, sql_update,
                   column_type, field_kind, ticket, ticket_valid>>

NextValidate == ValidateNewRecord

SpecValidate == InitValidate /\ [][NextValidate]_vars

OptionalColumns == {"root_cause", "timeline_year", "timeline_month", "timeline_quarter"}

\* all characters of s are whitespace (also when s is empty)
IsBlank(s) == \A i \in 1..Len(s) : s[i] \in Whitespace

\* None, an empty or whitespace-only string, or the placeholder
IsMissing(val) ==
    \/ val.t = "none"
    \/ val.t = "str" /\ (IsBlank(val.s) \/ val = SELECT_PLACEHOLDER)

\* positions of record_data that hold a missing value in a mandatory column
MissingMandatory ==
    { i \in 1..Len(record_data) :
        record_data[i][1] \notin OptionalColumns /\ IsMissing(record_data[i][2]) }

\* the value a timeline column has in record_data (empty when absent)
Timeline(col) ==
    IF \E i \in 1..Len(record_data) : record_data[i][1] = col
    THEN record_data[CHOOSE i \in 1..Len(record_data) : record_data[i][1] = col][2]
    ELSE EMPTY

\* C6: a missing value in a column outside the optional set makes the record
\* fail with a message naming such a field; a missing value in an optional
\* column never causes a mandatory-field failure.
C6_MandatoryFields ==
    validation.called =>
        /\ MissingMandatory # {} =>
              /\ ~validation.ok
              /\ validation.kind = "mandatory"
              /\ \E i \in MissingMandatory : validation.field = record_data[i][1]
        /\ validation.kind = "mandatory" =>
              /\ validation.field \notin OptionalColumns
              /\ MissingMandatory # {}

\* C6 witness: a record rejected for its mandatory dq_poc although an
\* optional column before it is empty as well
C6_Witness ==
    /\ validation.called
    /\ validation.kind = "mandatory"
    /\ validation.field = "dq_poc"
    /\ \E i \in 1..Len(record_data) :
          /\ record_data[i][1] = "root_cause"
          /\ IsMissing(record_data[i][2])
          /\ \A j \in MissingMandatory : i < j

\* C7: with two or more mandatory fields missing, the one message names the
\* first of them in record order and none of the later ones.
C7_ShortCircuit ==
    (validation.called /\ Cardinality(MissingMandatory) >= 2) =>
        /\ ~validation.ok
        /\ validation.kind = "mandatory"
        /\ \E i \in MissingMandatory :
              /\ \A j \in MissingMandatory : i <= j
              /\ validation.field = record_data[i][1]
        /\ \A j \in MissingMandatory :
              (\E i \in MissingMandatory : i < j)
                 => validation.field # record_data[j][1]

\* C7 witness: ticket and dq_poc both missing, dq_poc comes first
\* and is the one reported
C7_Witness ==
    /\ validation.called
    /\ Cardinality(MissingMandatory) >= 2
    /\ record_data[1][1] # validation.field
    /\ validation.field = "dq_poc"
    /\ \E i \in MissingMandatory : record_data[i][1] = "ticket"

\* C8: with all mandatory fields filled, a filled timeline_year with both
\* timeline_month and timeline_quarter missing fails with the combined
\* message; an empty year, or a filled month or quarter, passes.
C8_TimelineRule ==
    (validation.called /\ MissingMandatory = {}) =>
        IF /\ ~IsMissing(Timeline("timeline_year"))
           /\ IsMissing(Timeline("timeline_month"))
           /\ IsMissing(Timeline("timeline_quarter"))
        THEN ~validation.ok /\ validation.kind = "timeline"
        ELSE validation.ok /\ validation.kind = ""

\* C8 witness: year 2026 with quarter Q1 and no month has passed
C8_Witness ==
    /\ validation.called
    /\ validation.ok
    /\ Timeline("timeline_year") = PyStr(<<"2","0","2","6">>)
    /\ IsMissing(Timeline("timeline_month"))
    /\ Timeline("timeline_quarter") = PyStr(<<"Q","1">>)

\* C8 second case reached: year 2026 alone has been rejected
C8_RejectReached ==
    /\ validation.called
    /\ validation.kind = "timeline"
    /\ Timeline("timeline_year") = PyStr(<<"2","0","2","6">>)
    /\ Timeline("timeline_quarter") = SELECT_PLACEHOLDER

(***************************************************************************)
(* The masterfile editor page                                              *)
(***************************************************************************)
type_string == <<"s","t","r","i","n","g">>

type_int    == <<"i","n","t">>

\* DESCRIBE results the table may have: the ticket first, or an id first
SchemaTicketFirst ==
    << <<"ticket", type_string>>, <<"dq_poc", type_string>>,
       <<"timeline_year", type_string>>, <<"timeline_quarter", type_string>> >>

SchemaIdFirst ==
    << <<"id", type_int>>, <<"ticket", type_string>>, <<"notes", type_string>> >>

PageSchemas == {SchemaTicketFirst, SchemaIdFirst}

\* DROPDOWN_VALUES, each list cut to its first options
DROPDOWN_VALUES(column) ==
    CASE column = "dq_poc"           -> << <<"G","i","b","e">> >>
      [] column = "timeline_year"    -> << <<"2","0","2","6">> >>
      [] column = "timeline_quarter" -> << <<"Q","1">> >>
      [] column = "timeline_month"   -> << <<"1">>, <<"2">>, <<"3">> >>
      [] column = "overall_status"   -> << <<"C","l","o","s","e","d">>, <<"O","p","e","n">> >>
      [] OTHER                       -> <<>>

in_DROPDOWN_VALUES(column) ==
    column \in {"dq_poc", "timeline_year", "timeline_quarter", "timeline_month",
                "overall_status"}

\* render_form_field offering the placeholder in the edit form as well
dropdown_options_placeholder_always(column, key_suffix) ==
    <<SELECT_PLACEHOLDER.s>> \o DROPDOWN_VALUES(column)

\* render_form_field: the options list handed to st.selectbox
dropdown_options(column, key_suffix) ==
    IF key_suffix = "add"
    THEN <<SELECT_PLACEHOLDER.s>> \o DROPDOWN_VALUES(column)
    ELSE DROPDOWN_VALUES(column)

\* what a user types into the ticket box
TicketTyped ==
    { <<"M","D","A","R","-","1">>, <<"m","d","a","r","-","1">>,
      <<" ","M","D","A","R","-","2">>, <<"M","D","A","R","-","x">>, <<>> }

\* what a user enters into a number input
NumberInputs == {0, 1}

\* what a user leaves in a text box or text area
TextTyped == { <<>>, <<"x">> }

\* datetime.date.today(), the date an untouched st.date_input returns
date_today == PyDate(2026, 11, 3)

\* the exception int(x) / float(x) raises, "" when it returns
int_raised(cur) ==
    CASE cur.t = "str" /\ ~int_parses(cur.s) -> "ValueError"
      [] cur.t = "nan"                        -> "ValueError"
      [] cur.t \in {"none", "date"}           -> "TypeError"
      [] OTHER                                -> ""

float_raised(cur) ==
    CASE cur.t = "str" /\ ~float_parses(cur.s) -> "ValueError"
      [] cur.t \in {"none", "date"}             -> "TypeError"
      [] OTHER                                  -> ""

\* an exception that left render_form_field, in place of its return value
Escaped(exc) == [t |-> "raised", s |-> <<exc>>, n |-> 0]

\* number_default with an except clause that names ValueError alone
number_default_value_error_only(kind, cur) ==
    LET zero == IF kind = "Integer" THEN PyInt(0) ELSE PyFloat(0)
        exc  == IF kind = "Integer" THEN int_raised(cur) ELSE float_raised(cur)
    IN  IF cur = EMPTY THEN zero
        ELSE IF exc \in {"ValueError"} THEN zero
        ELSE IF exc # "" THEN Escaped(exc)
        ELSE IF kind = "Integer"
        THEN IF cur.t = "float" THEN PyInt(int_of_float(cur.n))
             ELSE IF cur.t = "str" THEN PyInt(int_of(cur.s))
             ELSE PyInt(cur.n)
        ELSE IF cur.t = "float" THEN PyFloat(cur.n)
             ELSE IF cur.t = "str" THEN PyFloat(float_of(cur.s))
             ELSE PyFloat(100 * cur.n)

\* default_val of the Integer and Float branches: the try block and its
\* except (ValueError, TypeError) clause
number_default(kind, cur) ==
    LET zero == IF kind = "Integer" THEN PyInt(0) ELSE PyFloat(0)
        exc  == IF kind = "Integer" THEN int_raised(cur) ELSE float_raised(cur)
    IN  IF cur = EMPTY THEN zero
        ELSE IF exc \in {"ValueError", "TypeError"} THEN zero
        ELSE IF exc # "" THEN Escaped(exc)
        ELSE IF kind = "Integer"
        THEN IF cur.t = "float" THEN PyInt(int_of_float(cur.n))
             ELSE IF cur.t = "str" THEN PyInt(int_of(cur.s))
             ELSE PyInt(cur.n)
        ELSE IF cur.t = "float" THEN PyFloat(cur.n)
             ELSE IF cur.t = "str" THEN PyFloat(float_of(cur.s))
             ELSE PyFloat(100 * cur.n)

\* render_form_field: the value an untouched control returns
render_default(column, ctype, current_value, key_suffix) ==
    LET cur == IF isna(current_value) THEN EMPTY ELSE current_value
    IN  IF column = "ticket"
        THEN PyStr(strip(IF cur # EMPTY THEN strip(py_str(cur)) ELSE <<>>))
        ELSE IF in_DROPDOWN_VALUES(column)
        THEN LET options == DROPDOWN_VALUES(column)
             IN  IF key_suffix = "add"
                 THEN IF truthy(cur) /\ \E i \in 1..Len(options) : options[i] = py_str(cur)
                      THEN PyStr(py_str(cur))
                      ELSE SELECT_PLACEHOLDER
                 ELSE IF truthy(cur) /\ \E i \in 1..Len(options) : options[i] = py_str(cur)
                      THEN PyStr(py_str(cur))
                      ELSE PyStr(options[1])
        ELSE IF render_form_field_kind(ctype) = "Integer"
        THEN number_default("Integer", cur)
        ELSE IF render_form_field_kind(ctype) = "Float"
        THEN number_default("Float", cur)
        ELSE IF render_form_field_kind(ctype) = "Boolean"
        THEN PyBool(cur # EMPTY /\ truthy(cur))
        ELSE IF render_form_field_kind(ctype) = "Date"
        THEN date_today
        ELSE PyStr(IF cur # EMPTY THEN py_str(cur) ELSE <<>>)

\* render_form_field: the values the control can return, the user's input
\* included
render_form_field(column, ctype, current_value, key_suffix) ==
    {render_default(column, ctype, current_value, key_suffix)} \cup
    (IF column = "ticket"
     THEN { PyStr(strip(typed)) : typed \in TicketTyped }
     ELSE IF in_DROPDOWN_VALUES(column)
     THEN { PyStr(DROPDOWN_VALUES(column)[i]) : i \in 1..Len(DROPDOWN_VALUES(column)) }
          \cup (IF key_suffix = "add" THEN {SELECT_PLACEHOLDER} ELSE {})
     ELSE IF render_form_field_kind(ctype) = "Integer"
     THEN { PyInt(n) : n \in NumberInputs }
     ELSE IF render_form_field_kind(ctype) = "Text"
     THEN { PyStr(typed) : typed \in TextTyped }
     ELSE {})

\* the form loop: every form_data dict the add form can collect
RECURSIVE add_forms(_)
add_forms(schema) ==
    IF schema = <<>> THEN { <<>> }
    ELSE { << <<Head(schema)[1], v>> >> \o rest :
             v \in render_form_field(Head(schema)[1], Head(schema)[2], PyNone, "add"),
             rest \in add_forms(Tail(schema)) }

\* the form loop: every form_data dict the edit form can collect for a row
RECURSIVE edit_forms(_, _)
edit_forms(schema, row) ==
    IF schema = <<>> THEN { <<>> }
    ELSE { << <<Head(schema)[1], v>> >> \o rest :
             v \in render_form_field(Head(schema)[1], Head(schema)[2],
                                     row[Head(schema)[1]], "edit"),
             rest \in edit_forms(Tail(schema), row) }

\* check_ticket_exists comparing case-sensitively
check_ticket_exists_cased(tk, rows) ==
    IF Len(rows) = 0 THEN FALSE
    ELSE IF "ticket" \notin DOMAIN rows[1] THEN FALSE
    ELSE \E i \in 1..Len(rows) :
            strip(py_str(rows[i]["ticket"])) = strip(tk)

\* check_ticket_exists(ticket, table_data) for a str ticket and a snapshot
check_ticket_exists(tk, rows) ==
    IF Len(rows) = 0 THEN FALSE
    ELSE IF "ticket" \notin DOMAIN rows[1] THEN FALSE
    ELSE \E i \in 1..Len(rows) :
            upper(strip(py_str(rows[i]["ticket"]))) = upper(strip(tk))

\* the WHERE clause built from the last schema column
where_clause_last_column(schema, row) ==
    LET first_col == schema[Len(schema)][1]
        first_val == row[first_col]
    IN  IF isinstance_str(first_val)
        THEN [col |-> first_col,
              val |-> <<"'">> \o replace_quote(first_val.s) \o <<"'">>]
        ELSE [col |-> first_col, val |-> py_str(first_val)]

\* the WHERE clause with a missing identifier written as the NULL literal
where_clause_null_literal(schema, row) ==
    LET first_col == schema[1][1]
        first_val == row[first_col]
    IN  IF isinstance_str(first_val)
        THEN [col |-> first_col,
              val |-> <<"'">> \o replace_quote(first_val.s) \o <<"'">>]
        ELSE IF first_val = PyNone THEN [col |-> first_col, val |-> NULL]
        ELSE [col |-> first_col, val |-> py_str(first_val)]

\* the WHERE clause of Save Changes and Confirm Delete
where_clause(schema, row) ==
    LET first_col == schema[1][1]
        first_val == row[first_col]
    IN  IF isinstance_str(first_val)
        THEN [col |-> first_col,
              val |-> <<"'">> \o replace_quote(first_val.s) \o <<"'">>]
        ELSE [col |-> first_col, val |-> py_str(first_val)]

(***************************************************************************)
(* The warehouse: what cursor.execute does with a statement                *)
(***************************************************************************)
READ_LIMIT == 1000

\* read_table: SELECT * FROM table LIMIT 1000
read_table(rows) ==
    SubSeq(rows, 1, IF Len(rows) < READ_LIMIT THEN Len(rows) ELSE READ_LIMIT)

\* the text between the quotes of a literal, '' read as one quote
RECURSIVE sql_unquote(_)
sql_unquote(e) ==
    IF e = <<>> THEN <<>>
    ELSE IF Head(e) = "'" /\ Len(e) >= 2 /\ e[2] = "'"
         THEN <<"'">> \o sql_unquote(SubSeq(e, 3, Len(e)))
         ELSE <<Head(e)>> \o sql_unquote(Tail(e))

\* a quote of the inner text that is not part of a '' pair ends the literal early
RECURSIVE sql_quotes_paired(_)
sql_quotes_paired(e) ==
    IF e = <<>> THEN TRUE
    ELSE IF Head(e) = "'"
         THEN Len(e) >= 2 /\ e[2] = "'" /\ sql_quotes_paired(SubSeq(e, 3, Len(e)))
         ELSE sql_quotes_paired(Tail(e))

RECURSIVE sql_number(_)
sql_number(ds) ==
    IF ds = <<>> THEN 0
    ELSE 10 * sql_number(SubSeq(ds, 1, Len(ds) - 1)) + (IndexIn(ds[Len(ds)], Digits) - 1)

sql_is_number(text) ==
    LET ds == IF Len(text) > 0 /\ text[1] = "-" THEN Tail(text) ELSE text
    IN  Len(ds) > 0 /\ \A i \in 1..Len(ds) : is_digit(ds[i])

\* the warehouse accepts the text as a literal
sql_is_literal(text) ==
    \/ upper(text) = NULL
    \/ upper(text) \in {<<"T","R","U","E">>, <<"F","A","L","S","E">>}
    \/ sql_is_number(text)
    \/ /\ Len(text) >= 2 /\ text[1] = "'" /\ text[Len(text)] = "'"
       /\ sql_quotes_paired(SubSeq(text, 2, Len(text) - 1))

\* the value a literal denotes
sql_literal(text) ==
    IF upper(text) = NULL THEN PyNone
    ELSE IF upper(text) = <<"T","R","U","E">> THEN PyBool(TRUE)
    ELSE IF upper(text) = <<"F","A","L","S","E">> THEN PyBool(FALSE)
    ELSE IF sql_is_number(text)
         THEN IF text[1] = "-" THEN PyInt(0 - sql_number(Tail(text)))
                               ELSE PyInt(sql_number(text))
    ELSE PyStr(sql_unquote(SubSeq(text, 2, Len(text) - 1)))

\* the statement parses and names columns of the table
sql_accepted(q, schema) ==
    LET cols == {schema[i][1] : i \in 1..Len(schema)}
    IN  /\ \A i \in 1..Len(q.columns) : q.columns[i] \in cols
        /\ \A i \in 1..Len(q.vals) : sql_is_literal(q.vals[i])
        /\ q.op \in {"UPDATE", "DELETE"} =>
              q.where.col \in cols /\ sql_is_literal(q.where.val)

\* WHERE col = literal: a comparison with NULL is never true
sql_where(row, where) ==
    /\ sql_literal(where.val) # PyNone
    /\ row[where.col] = sql_literal(where.val)

\* the column = value assignments of an INSERT or UPDATE
sql_assigned(q, col, old) ==
    IF \E i \in 1..Len(q.columns) : q.columns[i] = col
    THEN sql_literal(q.vals[CHOOSE i \in 1..Len(q.columns) : q.columns[i] = col])
    ELSE old

RECURSIVE sql_delete(_, _)
sql_delete(rows, where) ==
    IF rows = <<>> THEN <<>>
    ELSE (IF sql_where(Head(rows), where) THEN <<>> ELSE <<Head(rows)>>)
         \o sql_delete(Tail(rows), where)

\* the table after cursor.execute(q) of an accepted statement
sql_execute(rows, q, schema) ==
    LET cols == {schema[i][1] : i \in 1..Len(schema)}
    IN  CASE q.op = "INSERT" ->
               Append(rows, [c \in cols |-> sql_assigned(q, c, PyNone)])
          [] q.op = "UPDATE" ->
               [i \in 1..Len(rows) |->
                   IF sql_where(rows[i], q.where)
                   THEN [c \in cols |-> sql_assigned(q, c, rows[i][c])]
                   ELSE rows[i]]
          [] q.op = "DELETE" -> sql_delete(rows, q.where)

(***************************************************************************)
(* Spec: the handlers of the masterfile editor page                        *)
(***************************************************************************)
Gibe == PyStr(<<"G","i","b","e">>)

TicketRow(tk, poc) ==
    [c \in {"ticket", "dq_poc", "timeline_year", "timeline_quarter"} |->
        CASE c = "ticket" -> tk
          [] c = "dq_poc" -> poc
          [] OTHER        -> PyNone]

IdRow(id, tk) ==
    [c \in {"id", "ticket", "notes"} |->
        CASE c = "id"     -> id
          [] c = "ticket" -> tk
          [] OTHER        -> PyStr(<<"x">>)]

\* tables the page may find in the warehouse when the session starts
InitTables(schema) ==
    IF schema = SchemaTicketFirst
    THEN { <<>>,
           << TicketRow(PyStr(<<"M","D","A","R","-","1">>), Gibe) >>,
           << TicketRow(PyStr(<<"O","'","B">>), PyNone),
              TicketRow(PyStr(<<"M","D","A","R","-","1"," ">>), Gibe) >>,
           << TicketRow(PyNone, Gibe) >> }
    ELSE { <<>>,
           << IdRow(PyInt(1), PyStr(<<"M","D","A","R","-","1">>)) >>,
           << IdRow(PyInt(1), PyStr(<<"M","D","A","R","-","1">>)),
              IdRow(PyInt(1), PyStr(<<"M","D","A","R","-","2">>)) >>,
           << IdRow(PyNone, PyStr(<<"M","D","A","R","-","2">>)) >> }

NotValidated == [called |-> FALSE, ok |-> FALSE, kind |-> "", field |-> ""]

Init ==
    /\ db_schema \in PageSchemas
    /\ db \in InitTables(db_schema)
    /\ table_data = Absent
    /\ table_schema = Absent
    /\ connection_established = FALSE
    /\ query = NoQuery
    /\ message = "none"
    /\ selected_record = Absent
    /\ editor = "masterfile"
    /\ record_data = <<>>
    /\ sql_insert = Pending
    /\ sql_update = Pending
    /\ validation = NotValidated
    /\ failure = "none"
    /\ ClassifyIdle /\ TicketIdle /\ SeedIdle /\ DropdownIdle /\ FormIdle /\ McpIdle

\* the forms are rendered: "Show connection status" branch with a schema
FormsShown ==
    /\ connection_established
    /\ table_data.present
    /\ table_schema.present

\* Connect whose except branch leaves connection_established alone
Connect_keeping(fault) ==
    /\ IF fault \in {"connect", "read"}
       THEN /\ message' = "connect_failed"
            /\ UNCHANGED <<table_data, table_schema, connection_established>>
       ELSE IF fault = "describe"
       THEN /\ table_data' = Present(read_table(db))
            /\ message' = "connect_failed"
            /\ UNCHANGED <<table_schema, connection_established>>
       ELSE /\ table_data' = Present(read_table(db))
            /\ table_schema' = Present(db_schema)
            /\ connection_established' = TRUE
            /\ message' = "connected"
    /\ failure' = fault
    /\ query' = NoQuery
    /\ selected_record' = Absent
    /\ validation' = NotValidated
    /\ ticket' = PyNone
    /\ record_data' = <<>>
    /\ UNCHANGED <<db, db_schema, editor, sql_insert, sql_update,
                   column_type, field_kind, ticket_valid, seedVars, dropdownVars, formVars, mcpVars>>

\* Connect raising the flag before the schema has been read
Connect_flag_first(fault) ==
    /\ IF fault \in {"connect", "read"}
       THEN /\ connection_established' = FALSE
            /\ message' = "connect_failed"
            /\ UNCHANGED <<table_data, table_schema>>
       ELSE IF fault = "describe"
       THEN /\ table_data' = Present(read_table(db))
            /\ connection_established' = TRUE
            /\ message' = "connect_failed"
            /\ UNCHANGED table_schema
       ELSE /\ table_data' = Present(read_table(db))
            /\ table_schema' = Present(db_schema)
            /\ connection_established' = TRUE
            /\ message' = "connected"
    /\ failure' = fault
    /\ query' = NoQuery
    /\ selected_record' = Absent
    /\ validation' = NotValidated
    /\ ticket' = PyNone
    /\ record_data' = <<>>
    /\ UNCHANGED <<db, db_schema, editor, sql_insert, sql_update,
                   column_type, field_kind, ticket_valid, seedVars, dropdownVars, formVars, mcpVars>>

\* "Connect to Table" button
Connect(fault) ==
    /\ IF fault \in {"connect", "read"}
       THEN /\ connection_established' = FALSE
            /\ message' = "connect_failed"
            /\ UNCHANGED <<table_data, table_schema>>
       ELSE IF fault = "describe"
       THEN /\ table_data' = Present(read_table(db))
            /\ connection_established' = FALSE
            /\ message' = "connect_failed"
            /\ UNCHANGED table_schema
       ELSE /\ table_data' = Present(read_table(db))
            /\ table_schema' = Present(db_schema)
            /\ connection_established' = TRUE
            /\ message' = "connected"
    /\ failure' = fault
    /\ query' = NoQuery
    /\ selected_record' = Absent
    /\ validation' = NotValidated
    /\ ticket' = PyNone
    /\ record_data' = <<>>
    /\ UNCHANGED <<db, db_schema, editor, sql_insert, sql_update,
                   column_type, field_kind, ticket_valid, seedVars, dropdownVars, formVars, mcpVars>>

\* "Refresh Data" button
Refresh(fault) ==
    /\ connection_established
    /\ table_data.present
    /\ IF fault \in {"connect", "read"}
       THEN /\ message' = "refresh_failed"
            /\ UNCHANGED <<table_data, table_schema>>
       ELSE IF fault = "describe"
       THEN /\ table_data' = Present(read_table(db))
            /\ message' = "refresh_failed"
            /\ UNCHANGED table_schema
       ELSE /\ table_data' = Present(read_table(db))
            /\ table_schema' = Present(db_schema)
            /\ message' = "refreshed"
    /\ failure' = fault
    /\ query' = NoQuery
    /\ selected_record' = Absent
    /\ validation' = NotValidated
    /\ ticket' = PyNone
    /\ record_data' = <<>>
    /\ UNCHANGED <<db, db_schema, connection_established, editor,
                   sql_insert, sql_update, column_type, field_kind, ticket_valid,
                   seedVars, dropdownVars, formVars, mcpVars>>

\* the script run that st.rerun() starts, no button pressed: the guard
\* "connection_established and table_data is not None" decides between the
\* forms and the "Click 'Connect to Table'" hint; neither branch reads the table
rerun(data) == data

\* Mutation with the snapshot dropped in the except branch as well
Mutation_invalidating(out, done, failed) ==
    \/ /\ failure' = "connect"
       /\ query' = NoQuery
       /\ message' = failed
       /\ UNCHANGED <<db, table_data>>
    \/ /\ out.raised # ""
       /\ failure' = "none"
       /\ query' = NoQuery
       /\ message' = failed
       /\ UNCHANGED <<db, table_data>>
    \/ /\ out.raised = ""
       /\ query' = out.q
       /\ \/ /\ failure' = "execute"
             /\ message' = failed
             /\ table_data' = Absent
             /\ UNCHANGED db
          \/ /\ sql_accepted(out.q, db_schema)
             /\ Len(sql_execute(db, out.q, db_schema)) <= MaxRows
             /\ failure' = "none"
             /\ db' = sql_execute(db, out.q, db_schema)
             /\ message' = done
             /\ table_data' = rerun(Absent)

\* what a handler does with the outcome of insert/update/delete_record:
\* get_connection or the function raises, the warehouse rejects the
\* statement, or it runs; the except branch shows the error
Mutation(out, done, failed) ==
    \E o \in {out} :
       \/ /\ failure' = "connect"
          /\ query' = NoQuery
          /\ message' = failed
          /\ UNCHANGED <<db, table_data>>
       \/ /\ o.raised # ""
          /\ failure' = "none"
          /\ query' = NoQuery
          /\ message' = failed
          /\ UNCHANGED <<db, table_data>>
       \/ /\ o.raised = ""
          /\ query' = o.q
          /\ \/ /\ failure' = "execute"
                /\ message' = failed
                /\ UNCHANGED <<db, table_data>>
             \/ /\ sql_accepted(o.q, db_schema)
                /\ \E after \in {sql_execute(db, o.q, db_schema)} :
                      /\ Len(after) <= MaxRows
                      /\ failure' = "none"
                      /\ db' = after
                      /\ message' = done
                      /\ table_data' = rerun(Absent)

\* "Save Changes" of edit_record_form
SaveChanges(idx) ==
    /\ FormsShown
    /\ idx \in 1..Len(table_data.v)
    /\ record_data' = <<>>
    /\ \E fd \in edit_forms(table_schema.v, table_data.v[idx]) :
          /\ Mutation(update_record(fd, where_clause(table_schema.v, table_data.v[idx])),
                      "updated", "update_error")
    /\ selected_record' = Present(table_data.v[idx])
    /\ validation' = NotValidated
    /\ ticket' = PyNone
    /\ UNCHANGED <<db_schema, table_schema, connection_established, editor,
                   sql_insert, sql_update, column_type, field_kind,
                   ticket_valid, seedVars, dropdownVars, formVars, mcpVars>>

\* Add Record validating the form before it looks for a duplicate
AddRecord_validation_first ==
    /\ FormsShown
    /\ \E fd \in add_forms(table_schema.v) :
          /\ record_data' = fd
          /\ ticket' = PyStr(strip(get(fd, "ticket", EMPTY).s))
          /\ validation' = validate_new_record(fd)
          /\ IF ~validate_new_record(fd).ok
             THEN /\ message' = "validation_error"
                  /\ query' = NoQuery
                  /\ failure' = "none"
                  /\ UNCHANGED <<db, table_data>>
             ELSE IF check_ticket_exists(strip(get(fd, "ticket", EMPTY).s), table_data.v)
             THEN /\ message' = "ticket_exists"
                  /\ query' = NoQuery
                  /\ failure' = "none"
                  /\ UNCHANGED <<db, table_data>>
             ELSE Mutation(insert_record(fd), "added", "add_error")
    /\ selected_record' = Absent
    /\ UNCHANGED <<db_schema, table_schema, connection_established, editor,
                   sql_insert, sql_update, column_type, field_kind,
                   ticket_valid, seedVars, dropdownVars, formVars, mcpVars>>

\* "Add Record" of add_record_form
AddRecord ==
    /\ FormsShown
    /\ \E fd \in add_forms(table_schema.v) :
          /\ record_data' = fd
          /\ ticket' = PyStr(strip(get(fd, "ticket", EMPTY).s))
          /\ IF check_ticket_exists(strip(get(fd, "ticket", EMPTY).s), table_data.v)
             THEN /\ message' = "ticket_exists"
                  /\ query' = NoQuery
                  /\ validation' = NotValidated
                  /\ failure' = "none"
                  /\ UNCHANGED <<db, table_data>>
             ELSE /\ validation' = validate_new_record(fd)
                  /\ IF ~validation'.ok
                     THEN /\ message' = "validation_error"
                          /\ query' = NoQuery
                          /\ failure' = "none"
                          /\ UNCHANGED <<db, table_data>>
                     ELSE Mutation(insert_record(fd), "added", "add_error")
    /\ selected_record' = Absent
    /\ UNCHANGED <<db_schema, table_schema, connection_established, editor,
                   sql_insert, sql_update, column_type, field_kind,
                   ticket_valid, seedVars, dropdownVars, formVars, mcpVars>>

\* "Confirm Delete" button
ConfirmDelete(idx) ==
    /\ FormsShown
    /\ idx \in 1..Len(table_data.v)
    /\ selected_record' = Present(table_data.v[idx])
    /\ validation' = NotValidated
    /\ Mutation(delete_record(where_clause(table_schema.v, table_data.v[idx])),
                "deleted", "delete_error")
    /\ record_data' = <<>>
    /\ UNCHANGED <<db_schema, table_schema, connection_established, editor,
                   sql_insert, sql_update, column_type, field_kind,
                   ticket, ticket_valid, seedVars, dropdownVars, formVars, mcpVars>>

ReadFaults == {"none", "connect", "read", "describe"}

Next ==
    \/ \E fault \in ReadFaults : Connect(fault)
    \/ \E fault \in ReadFaults : Refresh(fault)
    \/ \E idx \in 1..MaxRows : SaveChanges(idx)
    \/ AddRecord
    \/ \E idx \in 1..MaxRows : ConfirmDelete(idx)

Spec == Init /\ [][Next]_vars

(***************************************************************************)
(* Properties of the page handlers                                         *)
(***************************************************************************)
\* text is val as a WHERE value: quoted with doubled quotes when val is a
\* string, its plain form without quotes otherwise
WhereRendered(val, text) ==
    IF val.t = "str"
    THEN /\ Len(text) >= 2
         /\ text[1] = "'" /\ text[Len(text)] = "'"
         /\ QuoteDoubled(val.s, SubSeq(text, 2, Len(text) - 1))
    ELSE text = py_str(val)

\* C2: the WHERE clause of every UPDATE and DELETE the page issues names the
\* first column of table_schema and carries that column's value in the
\* selected snapshot row, quoted and quote-doubled when a string, plain
\* otherwise.
C2_WhereClause ==
    query.op \in {"UPDATE", "DELETE"} =>
        /\ selected_record.present
        /\ table_schema.present
        /\ query.where.col = table_schema.v[1][1]
        /\ WhereRendered(selected_record.v[table_schema.v[1][1]], query.where.val)

\* C2 witness: an UPDATE that changes the ticket O'B, with the old ticket
\* in its WHERE clause
C2_Witness ==
    /\ query.op = "UPDATE"
    /\ message = "updated"
    /\ query.where = [col |-> "ticket", val |-> <<"'","O","'","'","B","'">>]
    /\ query.columns[1] = "ticket"
    /\ query.vals[1] # query.where.val

\* C2 second case reached: a DELETE with an unquoted number in its WHERE
C2_DeleteReached ==
    /\ query.op = "DELETE"
    /\ message = "deleted"
    /\ query.where = [col |-> "id", val |-> <<"1">>]

AddMessages == {"ticket_exists", "validation_error", "added", "add_error"}

\* the candidate equals the snapshot value, ignoring case and surrounding
\* whitespace
SameTicket(candidate, stored) ==
    stored.t = "str" /\ lower(strip(candidate)) = lower(strip(stored.s))

\* C10: an Add Record whose trimmed ticket matches a ticket of the current
\* snapshot, ignoring case and surrounding whitespace, is rejected with the
\* 'Ticket already exists' error, issues no INSERT and leaves the table alone.
C10_DuplicateTicket ==
    [][ (/\ message' \in AddMessages
         /\ table_data.present
         /\ \E i \in 1..Len(table_data.v) :
               SameTicket(ticket'.s, table_data.v[i]["ticket"]))
        => (/\ message' = "ticket_exists"
            /\ query' = NoQuery
            /\ db' = db) ]_vars

\* C10 witness: mdar-1 has been rejected against a stored MDAR-1
C10_Witness ==
    /\ message = "ticket_exists"
    /\ ticket = PyStr(<<"m","d","a","r","-","1">>)
    /\ table_data.present
    /\ \E i \in 1..Len(table_data.v) :
          table_data.v[i]["ticket"] = PyStr(<<"M","D","A","R","-","1">>)
    /\ \A i \in 1..Len(table_data.v) : table_data.v[i]["ticket"] # ticket

(***************************************************************************)
(* Properties of the ticket carried by a statement                         *)
(***************************************************************************)
\* t is MDAR- followed by one or more of the digits 0..9, and nothing else
FullMatch(t) ==
    /\ Len(t) >= 6
    /\ SubSeq(t, 1, 5) = <<"M","D","A","R","-">>
    /\ \A i \in 6..Len(t) : t[i] \in {"0","1","2","3","4","5","6","7","8","9"}

Trimmed(t) == t = <<>> \/ (t[1] \notin Whitespace /\ t[Len(t)] \notin Whitespace)

\* the text a statement carries for the ticket column
CarriedTicket(q) ==
    q.vals[CHOOSE i \in 1..Len(q.columns) : q.columns[i] = "ticket"]

\* the ticket of record_data is a string that fully matches once trimmed
RecordTicketMatches ==
    /\ get(record_data, "ticket", PyNone).t = "str"
    /\ FullMatch(strip(get(record_data, "ticket", PyNone).s))

\* the call has returned a statement carrying the trimmed, matching ticket
\* of the record, or has raised with no statement
TicketGuarded(out) ==
    out # Pending =>
        IF RecordTicketMatches
        THEN /\ out.raised = ""
             /\ \E t \in {strip(get(record_data, "ticket", PyNone).s)} :
                   /\ Trimmed(t) /\ FullMatch(t)
                   /\ CarriedTicket(out.q) = <<"'">> \o t \o <<"'">>
        ELSE out.raised # "" /\ out.q = NoQuery

\* C11: every INSERT or UPDATE the masterfile editor builds for a record
\* with a ticket column carries the ticket trimmed and fully matching
\* MDAR-<digits>; a record whose trimmed ticket does not match is rejected
\* with no statement built.
C11_TicketOnEveryStatement ==
    (editor = "masterfile" /\ has_key(record_data, "ticket")) =>
        TicketGuarded(sql_insert) /\ TicketGuarded(sql_update)

\* C11 witness: an UPDATE for the ticket " MDAR-1 " carries 'MDAR-1'
C11_Witness ==
    /\ editor = "masterfile"
    /\ get(record_data, "ticket", PyNone) = PyStr(<<" ","M","D","A","R","-","1"," ">>)
    /\ sql_update.raised = ""
    /\ CarriedTicket(sql_update.q) = <<"'","M","D","A","R","-","1","'">>

\* C11 second case reached: an INSERT for the ticket O'Brien was refused
C11_RejectReached ==
    /\ editor = "masterfile"
    /\ get(record_data, "ticket", PyNone) = PyStr(<<"O","'","B","r","i","e","n">>)
    /\ sql_insert.raised = "ValueError"

(***************************************************************************)
(* Properties of the page's error handling                                 *)
(***************************************************************************)
\* the Add Record step found a ticket of the snapshot equal to the candidate
AddDuplicate ==
    \E i \in 1..Len(table_data.v) : SameTicket(ticket'.s, table_data.v[i]["ticket"])

\* C12: an Add Record submission that fails a validation (duplicate
\* ticket, mandatory field or timeline rule, ticket format) is reported with
\* the error of that validation, hands no INSERT to the backend and leaves
\* table_data and the table as they were.
C12_AddValidationFailure ==
    [][ (/\ message' \in AddMessages
         /\ \/ AddDuplicate
            \/ validation'.called /\ ~validation'.ok
            \/ ~FullMatch(ticket'.s))
        => (/\ message' = (IF AddDuplicate THEN "ticket_exists"
                           ELSE IF ~validation'.ok THEN "validation_error"
                           ELSE "add_error")
            /\ query' = NoQuery
            /\ table_data' = table_data
            /\ db' = db) ]_vars

\* C12 witness: the ticket MDAR-x passed the duplicate and mandatory checks
\* and was refused by insert_record, with the snapshot still in place
C12_Witness ==
    /\ message = "add_error"
    /\ ticket = PyStr(<<"M","D","A","R","-","x">>)
    /\ validation.called /\ validation.ok
    /\ failure = "none"
    /\ query = NoQuery
    /\ table_data.present

\* C12 second case reached: a form failed the mandatory or timeline rule
C12_ValidationReached ==
    /\ message = "validation_error"
    /\ validation.called /\ ~validation.ok
    /\ query = NoQuery
    /\ table_data.present

\* the error message of the handler that sent a statement of this kind
ErrorOf(op) ==
    CASE op = "INSERT" -> "add_error"
      [] op = "UPDATE" -> "update_error"
      [] op = "DELETE" -> "delete_error"
      [] OTHER         -> "none"

\* C13: when the backend rejects an INSERT, UPDATE or DELETE (execute
\* raises), the handler shows its error, and the snapshot keeps its value:
\* table_data is not set to None and the forms stay available for a retry.
C13_BackendRejection ==
    [][ failure' = "execute"
        => (/\ query'.op \in {"INSERT", "UPDATE", "DELETE"}
            /\ message' = ErrorOf(query'.op)
            /\ table_data' = table_data
            /\ table_data'.present
            /\ FormsShown'
            /\ db' = db) ]_vars

\* C13 witness: the backend refused an UPDATE and the forms are still shown
C13_Witness ==
    /\ failure = "execute"
    /\ query.op = "UPDATE"
    /\ message = "update_error"
    /\ FormsShown

\* C13 other statements reached: a refused INSERT and a refused DELETE
C13_InsertReached == failure = "execute" /\ query.op = "INSERT" /\ FormsShown

C13_DeleteReached == failure = "execute" /\ query.op = "DELETE" /\ FormsShown

(***************************************************************************)
(* Properties of the snapshot after a mutation                             *)
(***************************************************************************)
MutationDone == message \in {"added", "updated", "deleted"}

\* C14 as stated: after a successful insert, update or delete the snapshot
\* is dropped and the script run that follows reads the table again with no
\* further click, so the page then holds the table as the backend has it.
C14_AsStated ==
    MutationDone => (table_data.present /\ table_data.v = read_table(db))

\* C14, the part the page keeps: after a successful insert, update or delete
\* table_data is None while connection_established is still True, so the
\* page shows the "Click 'Connect to Table'" hint until Connect is pressed.
C14_SnapshotDropped ==
    MutationDone => (~table_data.present /\ connection_established /\ ~FormsShown)

(***************************************************************************)
(* Properties of a failed Connect or Refresh                               *)
(***************************************************************************)
\* the step is a Connect or Refresh in which a backend call raised
ReadFailed ==
    /\ failure' \in {"connect", "read", "describe"}
    /\ message' \notin {"add_error", "update_error", "delete_error"}

\* C15 as stated: a failed Connect or Refresh is shown and leaves
\* table_data, table_schema and connection_established unchanged.
C15_AsStated ==
    [][ ReadFailed
        => (/\ message' \in {"connect_failed", "refresh_failed"}
            /\ UNCHANGED <<table_data, table_schema, connection_established>>) ]_vars

\* C15 amended: a failed Connect or Refresh is shown and never changes
\* table_schema or the table; a failed Refresh leaves connection_established
\* as it was, a failed Connect sets it to False; table_data is unchanged
\* when get_connection or read_table raised and holds the rows just read
\* when get_table_schema raised.
C15_FailedRead ==
    [][ ReadFailed
        => (/\ message' \in {"connect_failed", "refresh_failed"}
            /\ table_schema' = table_schema
            /\ db' = db
            /\ query' = NoQuery
            /\ connection_established' =
                  (message' = "refresh_failed" /\ connection_established)
            /\ table_data' = (IF failure' = "describe"
                              THEN Present(read_table(db)) ELSE table_data)) ]_vars

\* C15 witness: a Connect failed on a page that had its snapshot and
\* schema, and the forms are no longer shown
C15_Witness ==
    /\ message = "connect_failed"
    /\ failure = "connect"
    /\ table_data.present /\ table_schema.present
    /\ ~connection_established

\* C15 other cases reached: a Refresh failed in get_table_schema after the
\* table had changed under the snapshot; a Refresh failed in read_table
C15_PartialReached ==
    /\ message = "refresh_failed"
    /\ failure = "describe"
    /\ FormsShown
    /\ table_data.v = read_table(db)

C15_RefreshReached == message = "refresh_failed" /\ failure = "read" /\ FormsShown

(***************************************************************************)
(* SpecRoundTrip: update_record of both editors, executed by the warehouse *)
(* on a table whose rows before the call are kept in table_data            *)
(***************************************************************************)
RtRow(id, tk, notes) ==
    [c \in {"id", "ticket", "notes"} |->
        CASE c = "id"     -> id
          [] c = "ticket" -> tk
          [] OTHER        -> notes]

O_B == PyStr(<<"O","'","B">>)

MDAR(d) == PyStr(<<"M","D","A","R","-",d>>)

\* tables the call may find
RoundTripTables ==
    { << RtRow(PyInt(1), MDAR("1"), PyStr(<<"x">>)), RtRow(PyInt(2), MDAR("2"), O_B) >>,
      << RtRow(PyInt(1), MDAR("1"), PyNone), RtRow(PyInt(1), MDAR("3"), O_B) >>,
      << RtRow(PyNone, MDAR("1"), PyStr(<<"x">>)) >> }

\* values a record may give for a column, of the column's type
RoundTripValues(col) ==
    CASE col = "id"     -> { PyInt(1), PyInt(-12), PyNone }
      [] col = "ticket" -> { MDAR("1"), PyStr(<<" ","M","D","A","R","-","2"," ">>),
                             PyStr(<<"M","D","A","R","-","x">>) }
      [] col = "notes"  -> { PyNone, EMPTY, SELECT_PLACEHOLDER, O_B,
                             PyStr(<<"'","'">>), PyStr(<<"x">>) }

\* dicts of 1..MaxFields distinct columns of the table, in any order
RoundTripRecords ==
    LET items == UNION { { <<c, v>> : v \in RoundTripValues(c) }
                         : c \in {"id", "ticket", "notes"} }
    IN  UNION { { rd \in [1..n -> items] :
                    \A i, j \in 1..n : i # j => rd[i][1] # rd[j][1] }
                : n \in 1..MaxFields }

\* the where_clause arguments of the calls
RoundTripWheres ==
    { [col |-> "id", val |-> <<"1">>],
      [col |-> "id", val |-> <<"7">>],
      [col |-> "notes", val |-> <<"'","O","'","'","B","'">>] }

InitRoundTrip ==
    /\ ValidateIdle /\ ClassifyIdle /\ TicketIdle /\ SeedIdle /\ DropdownIdle /\ FormIdle /\ McpIdle
    /\ editor \in {"masterfile", "generic"}
    /\ record_data \in RoundTripRecords
    /\ db_schema = SchemaIdFirst
    /\ db \in RoundTripTables
    /\ table_data = Present(read_table(db))
    /\ table_schema = Present(db_schema)
    /\ connection_established = TRUE
    /\ query = NoQuery
    /\ message = "none"
    /\ selected_record = Absent
    /\ failure = "none"
    /\ sql_insert = Pending
    /\ sql_update = Pending

\* the call: the statement is built and cursor.execute runs it
Executed(out) ==
    /\ sql_update = Pending
    /\ sql_update' = out
    /\ query' = out.q
    /\ IF out.raised = "" /\ sql_accepted(out.q, db_schema)
       THEN /\ db' = sql_execute(db, out.q, db_schema)
            /\ message' = "updated"
            /\ failure' = "none"
       ELSE /\ message' = "update_error"
            /\ failure' = IF out.raised = "" THEN "execute" ELSE "none"
            /\ UNCHANGED db
    /\ UNCHANGED <<db_schema, table_data, table_schema, connection_established,
                   selected_record, editor, record_data, sql_insert, validation,
                   column_type, field_kind, ticket, ticket_valid, seedVars, dropdownVars, formVars, mcpVars>>

UpdateRoundTrip(w) ==
    /\ editor = "masterfile"
    /\ Executed(update_record(record_data, w))

TfeUpdateRoundTrip(w) ==
    /\ editor = "generic"
    /\ Executed(tfe_update_record(record_data, w))

NextRoundTrip ==
    \/ \E w \in RoundTripWheres : UpdateRoundTrip(w)
    \/ \E w \in RoundTripWheres : TfeUpdateRoundTrip(w)

SpecRoundTrip == InitRoundTrip /\ [][NextRoundTrip]_vars

(***************************************************************************)
(* Properties of the round trip                                            *)
(***************************************************************************)
\* the row satisfied the predicate before the update
Matched(old, where) ==
    old[where.col] # PyNone /\ WhereRendered(old[where.col], where.val)

\* what the column holds after an update that gave it val
Stored(col, val) ==
    IF val = PyNone \/ val = EMPTY THEN PyNone
    ELSE IF editor = "masterfile" /\ col = "ticket" THEN PyStr(strip(val.s))
    ELSE val

\* C16 as stated: after update_record succeeds, re-reading the table shows
\* every row that matched the predicate holding, in each column of the
\* record, the value given in the record, and every other row unchanged.
C16_AsStated ==
    message = "updated" =>
        /\ Len(read_table(db)) = Len(table_data.v)
        /\ \A i \in 1..Len(table_data.v) :
              IF Matched(table_data.v[i], query.where)
              THEN \A k \in 1..Len(record_data) :
                      read_table(db)[i][record_data[k][1]] = record_data[k][2]
              ELSE read_table(db)[i] = table_data.v[i]

\* C16 amended: after update_record succeeds, re-reading the table shows
\* every row that matched the predicate holding, in each column of the
\* record, the value given in the record, but NULL where the record gave
\* the empty string and, in the masterfile editor, the trimmed ticket; the
\* columns the record does not name and the rows that did not match are
\* unchanged.
C16_RoundTrip ==
    message = "updated" =>
        /\ Len(read_table(db)) = Len(table_data.v)
        /\ \A i \in 1..Len(table_data.v) :
              IF Matched(table_data.v[i], query.where)
              THEN \A c \in {"id", "ticket", "notes"} :
                      read_table(db)[i][c] =
                         IF has_key(record_data, c)
                         THEN Stored(c, get(record_data, c, PyNone))
                         ELSE table_data.v[i][c]
              ELSE read_table(db)[i] = table_data.v[i]

\* C16 witness: WHERE id = 1 matched two rows and both now hold the notes
\* O'B given in the record, with their tickets as before
C16_Witness ==
    /\ message = "updated"
    /\ query.where.col = "id"
    /\ keys(record_data) = <<"notes">>
    /\ Len(table_data.v) = 2
    /\ \A i \in 1..2 : /\ Matched(table_data.v[i], query.where)
                        /\ db[i]["notes"] = O_B
                        /\ db[i]["ticket"] = table_data.v[i]["ticket"]
    /\ table_data.v[1]["notes"] = PyNone

\* C16 other cases reached: an update that matched one row of two, and one
\* that gave the empty string
C16_UnmatchedReached ==
    /\ message = "updated"
    /\ Len(db) = 2
    /\ Matched(table_data.v[2], query.where) /\ ~Matched(table_data.v[1], query.where)
    /\ db[2] # table_data.v[2]

C16_EmptyReached ==
    /\ message = "updated"
    /\ get(record_data, "notes", PyNone) = EMPTY
    /\ \E i \in 1..Len(db) : Matched(table_data.v[i], query.where)

(***************************************************************************)
(* Properties of validation before a mutation                              *)
(***************************************************************************)
\* the statement names the column and gives it a value that is not NULL,
\* blank or the placeholder
CarriesValue(q, col) ==
    \E i \in 1..Len(q.columns) :
        /\ q.columns[i] = col
        /\ q.vals[i] # NULL
        /\ q.vals[i] # <<"'">> \o SELECT_PLACEHOLDER.s \o <<"'">>
        /\ (q.vals[i][1] = "'" => strip(SubSeq(q.vals[i], 2, Len(q.vals[i]) - 1)) # <<>>)

\* the record a statement was built from keeps the mandatory-field rule
\* and the timeline rule
KeepsRules(q) ==
    /\ \A i \in 1..Len(q.columns) :
          q.columns[i] \notin OptionalColumns => CarriesValue(q, q.columns[i])
    /\ CarriesValue(q, "timeline_year") =>
          CarriesValue(q, "timeline_month") \/ CarriesValue(q, "timeline_quarter")

\* C17 as stated: in the masterfile editor no INSERT and no UPDATE is
\* executed for a record that violates the mandatory-field rule or the
\* timeline year/month-or-quarter rule.
C17_AsStated ==
    (query.op \in {"INSERT", "UPDATE"} /\ message \in {"added", "updated"})
        => KeepsRules(query)

\* C17, the part the page keeps: no INSERT is executed for such a record.
C17_InsertValidated ==
    (query.op = "INSERT" /\ message = "added") => KeepsRules(query)

(***************************************************************************)
(* Properties of the unquoted values                                       *)
(***************************************************************************)
\* text is a decimal number: an optional minus sign, digits, and at most one
\* point with digits on both sides
DecimalLiteral(text) ==
    LET b == IF Len(text) > 0 /\ text[1] = "-" THEN Tail(text) ELSE text
        points == {i \in 1..Len(b) : b[i] = "."}
    IN  /\ Len(b) > 0
        /\ Cardinality(points) <= 1
        /\ \A i \in points : 1 < i /\ i < Len(b)
        /\ \A i \in 1..Len(b) :
              b[i] \in {"0","1","2","3","4","5","6","7","8","9","."}

BooleanLiteral(text) == text \in {<<"T","r","u","e">>, <<"F","a","l","s","e">>}

Unquoted(q) == {i \in 1..Len(q.vals) : q.vals[i][1] # "'"}

\* C18 as stated: every value insert_record or update_record emits without
\* quotes is NULL or the literal of a decimal number or of a boolean,
\* whatever field kind produced the value, the Date picker included.
C18_AsStated ==
    \A out \in {sql_insert, sql_update} :
        out.raised = "" =>
            \A i \in Unquoted(out.q) :
                \/ out.q.vals[i] = NULL
                \/ DecimalLiteral(out.q.vals[i])
                \/ BooleanLiteral(out.q.vals[i])

\* C18, the part both editors keep: a value that is None, a string, an int,
\* a float or a bool is emitted as NULL, a quoted literal, a decimal number
\* or a boolean.
C18_ScalarsRendered ==
    \A out \in {sql_insert, sql_update} :
        out.raised = "" =>
            \A i \in Unquoted(out.q) :
                \/ out.q.vals[i] = NULL
                \/ DecimalLiteral(out.q.vals[i])
                \/ BooleanLiteral(out.q.vals[i])
                \/ \E k \in 1..Len(record_data) : record_data[k][2].t = "date"

(***************************************************************************)
(* Properties of the "-- Select --" placeholder                            *)
(***************************************************************************)
DropdownColumns == {"dq_poc", "timeline_year", "timeline_quarter"}

PlaceholderLiteral == <<"'">> \o SELECT_PLACEHOLDER.s \o <<"'">>

\* the text is one of the column's options as a quoted literal
OptionLiteral(col, text) ==
    \E i \in 1..Len(DROPDOWN_VALUES(col)) :
        text = <<"'">> \o DROPDOWN_VALUES(col)[i] \o <<"'">>

\* C19: the "-- Select --" placeholder exists only in the add form and is
\* never stored: no dropdown of the edit form offers it for any row of the
\* snapshot; every INSERT the add form leads to carries, for each dropdown
\* column, NULL or one of the column's options and never the text
\* '-- Select --'; no dropdown column of the table ever holds it.
C19_PlaceholderNeverStored ==
    /\ FormsShown =>
          \A i \in 1..Len(table_data.v), k \in 1..Len(table_schema.v) :
              table_schema.v[k][1] \in DropdownColumns =>
                  SELECT_PLACEHOLDER \notin
                      render_form_field(table_schema.v[k][1], table_schema.v[k][2],
                                        table_data.v[i][table_schema.v[k][1]], "edit")
    /\ query.op \in {"INSERT", "UPDATE"} =>
          \A k \in 1..Len(query.columns) :
              /\ query.vals[k] # PlaceholderLiteral
              /\ (query.op = "INSERT" /\ query.columns[k] \in DropdownColumns) =>
                    (query.vals[k] = NULL \/ OptionLiteral(query.columns[k], query.vals[k]))
    /\ \A i \in 1..Len(db) :
          \A c \in DropdownColumns \cap DOMAIN db[i] : db[i][c] # SELECT_PLACEHOLDER

\* C19 witness: an add form with the year left on the placeholder and the
\* quarter chosen was inserted, and the new row holds NULL for the year
C19_Witness ==
    /\ query.op = "INSERT"
    /\ message = "added"
    /\ \E k \in 1..Len(query.columns) :
          query.columns[k] = "timeline_year" /\ query.vals[k] = NULL
    /\ \E k \in 1..Len(query.columns) :
          query.columns[k] = "timeline_quarter" /\ query.vals[k] = <<"'","Q","1","'">>
    /\ db[Len(db)]["timeline_year"] = PyNone

(***************************************************************************)
(* SpecSeed: render_form_field of both editors, called for a numeric       *)
(* column on one current value                                             *)
(***************************************************************************)
\* declared types of numeric columns
SeedTypes ==
    { <<"i","n","t">>, <<"b","i","g","i","n","t">>, <<"I","N","T">>,
      <<"f","l","o","a","t">>, <<"d","o","u","b","l","e">>,
      <<"d","e","c","i","m","a","l","(","1","0",",","2",")">> }

\* current values of a field: nothing, numerals as text, other text,
\* numbers, and an object that is no number
SeedCurrents ==
    { PyNone, PyNaN, EMPTY,
      PyStr(<<"1","2">>), PyStr(<<" ","7"," ">>), PyStr(<<"-","3">>),
      PyStr(<<"1","2",".","5">>), PyStr(<<"a","b","c">>),
      PyStr(<<"1",".","2",".","3">>), PyStr(<<" ">>),
      PyInt(0), PyInt(42), PyInt(-12),
      PyFloat(0), PyFloat(370), PyFloat(-370), PyFloat(1234),
      PyBool(TRUE), PyDate(2026, 11, 3) }

InitSeed ==
    /\ PageIdle /\ ValidateIdle /\ TicketIdle /\ DropdownIdle /\ FormIdle /\ McpIdle
    /\ editor \in {"masterfile", "generic"}
    /\ record_data = <<>>
    /\ sql_insert = Pending
    /\ sql_update = Pending
    /\ column_type \in SeedTypes
    /\ field_kind = "none"
    /\ field_current \in SeedCurrents
    /\ field_value = PyNone

\* render_form_field("qty", column_type, current_value, "edit"), untouched
RenderNumberField ==
    /\ editor = "masterfile"
    /\ field_kind = "none"
    /\ field_kind' = render_form_field_kind(column_type)
    /\ field_value' = render_default("qty", column_type, field_current, "edit")
    /\ UNCHANGED <<pageVars, editor, record_data, sql_insert, sql_update, validation,
                   column_type, ticket, ticket_valid, field_current,
                   dropdownVars, formVars, mcpVars>>

\* the same call in table_form_editor.py, whose numeric branches are the same
TfeRenderNumberField ==
    /\ editor = "generic"
    /\ field_kind = "none"
    /\ field_kind' = render_form_field_kind(column_type)
    /\ field_value' = render_default("qty", column_type, field_current, "edit")
    /\ UNCHANGED <<pageVars, editor, record_data, sql_insert, sql_update, validation,
                   column_type, ticket, ticket_valid, field_current,
                   dropdownVars, formVars, mcpVars>>

NextSeed == RenderNumberField \/ TfeRenderNumberField

SpecSeed == InitSeed /\ [][NextSeed]_vars

(***************************************************************************)
(* Properties of the numeric seeds                                         *)
(***************************************************************************)
\* the text is a numeral of an int: digits after an optional sign
IntNumeral(s) ==
    LET b == IF Len(s) > 0 /\ s[1] \in {"-", "+"} THEN Tail(s) ELSE s
    IN  Len(b) > 0 /\ \A i \in 1..Len(b) : b[i] \in {"0","1","2","3","4","5","6","7","8","9"}

\* the seed is the int the current value denotes: the int itself, 0 or 1
\* for a bool, the float cut towards zero, the numeral read
IntSeedOf(cur, seed) ==
    CASE cur.t \in {"int", "bool"} -> seed = cur.n
      [] cur.t = "float" -> /\ (cur.n >= 0 => 100 * seed <= cur.n /\ cur.n < 100 * (seed + 1))
                            /\ (cur.n < 0 => 100 * seed >= cur.n /\ cur.n > 100 * (seed - 1))
      [] cur.t = "str"   -> int_str(seed) = strip(cur.s)
      [] OTHER           -> FALSE

\* the seed, in hundredths, is the float the current value denotes
FloatSeedOf(cur, seed) ==
    CASE cur.t \in {"int", "bool"} -> seed = 100 * cur.n
      [] cur.t = "float" -> seed = cur.n
      [] cur.t = "str"   -> \/ float_str(seed) = strip(cur.s)
                            \/ float_str(seed) = strip(cur.s) \o <<".","0">>
      [] OTHER           -> FALSE

\* the current value has no reading as a number of the kind
NoNumber(kind, cur) ==
    \/ cur.t \in {"none", "nan", "date"}
    \/ /\ cur.t = "str"
       /\ IF kind = "Integer" THEN ~IntNumeral(strip(cur.s))
                              ELSE ~DecimalLiteral(strip(cur.s))

C20_NaNReached ==
    field_kind = "Float" /\ field_current = PyNaN /\ field_value = PyFloat(0)

C20_TruncReached ==
    field_kind = "Integer" /\ field_current = PyFloat(-370) /\ field_value = PyInt(-3)

C20_ParsedReached ==
    /\ field_kind = "Float"
    /\ field_current = PyStr(<<"1","2",".","5">>)
    /\ field_value = PyFloat(1250)

C20_ObjectReached ==
    field_kind = "Integer" /\ field_current.t = "date" /\ field_value = PyInt(0)

(***************************************************************************)
(* SpecDropdown: render_form_field called for a dropdown column, once by   *)
(* the add form (no current value) or by the edit form (the selected       *)
(* record's value), the control left untouched                             *)
(***************************************************************************)
\* what a selected record holds in a dropdown column
DropdownCurrents ==
    { PyNone, PyNaN, EMPTY,
      PyStr(<<"O","p","e","n">>), PyStr(<<"o","p","e","n">>), PyStr(<<" ","O","p","e","n">>),
      PyStr(<<"G","i","b","e">>), PyStr(<<"Q","1">>), PyStr(<<"Q","9">>),
      PyStr(<<"2">>), PyStr(<<"1","3">>), PyStr(<<"2","0","2","6">>),
      PyInt(2), PyInt(0), PyInt(2026), PyFloat(200), PyBool(TRUE),
      SELECT_PLACEHOLDER }

InitDropdown ==
    /\ PageIdle /\ SqlIdle /\ ValidateIdle /\ TicketIdle /\ FormIdle /\ McpIdle
    /\ column_type = type_string
    /\ field_kind = "none"
    /\ field_column \in {"dq_poc", "timeline_year", "timeline_quarter", "timeline_month",
                         "overall_status"}
    /\ field_suffix \in {"add", "edit"}
    /\ field_current \in (IF field_suffix = "add" THEN {PyNone} ELSE DropdownCurrents)
    /\ field_value = PyNone
    /\ field_options = <<>>

\* form_data[column] = render_form_field(column, dtype, key_suffix="add")
RenderAddDropdown ==
    /\ field_suffix = "add"
    /\ field_options = <<>>
    /\ field_options' = dropdown_options(field_column, "add")
    /\ field_value' = render_default(field_column, column_type, field_current, "add")
    /\ UNCHANGED <<pageVars, callVars, field_current, field_column, field_suffix,
                   formVars, mcpVars>>

\* form_data[column] = render_form_field(column, dtype, current_value, "edit")
RenderEditDropdown ==
    /\ field_suffix = "edit"
    /\ field_options = <<>>
    /\ field_options' = dropdown_options(field_column, "edit")
    /\ field_value' = render_default(field_column, column_type, field_current, "edit")
    /\ UNCHANGED <<pageVars, callVars, field_current, field_column, field_suffix,
                   formVars, mcpVars>>

NextDropdown == RenderAddDropdown \/ RenderEditDropdown

SpecDropdown == InitDropdown /\ [][NextDropdown]_vars

(***************************************************************************)
(* C21  Default of a dropdown control                                      *)
(***************************************************************************)
\* the text a value shows as when it is a non-empty string or a non-zero integer
ShownText(v) ==
    CASE v.t = "str" /\ v.s # <<>> -> <<v.s>>
      [] v.t = "int" /\ v.n # 0    -> <<int_str(v.n)>>
      [] OTHER                     -> <<>>

\* the current value is one of the column's domain values
InDomain(column, v) ==
    \E i \in 1..Len(DROPDOWN_VALUES(column)) :
        ShownText(v) = <<DROPDOWN_VALUES(column)[i]>>

\* C21: for a column with a fixed value domain the add form offers the
\* "-- Select --" placeholder followed by the domain and an untouched control
\* returns the placeholder; the edit form offers the domain only, and an
\* untouched control returns the current value when that is a domain value and
\* the first domain value when the current value is empty or outside the domain.
C21_DropdownDefault ==
    field_options # <<>> =>
        LET domain == DROPDOWN_VALUES(field_column)
        IN  /\ field_suffix = "add" =>
                /\ field_options = << <<"-","-"," ","S","e","l","e","c","t"," ","-","-">> >> \o domain
                /\ field_value = PyStr(field_options[1])
            /\ field_suffix = "edit" =>
                /\ field_options = domain
                /\ InDomain(field_column, field_current) =>
                       field_value = PyStr(ShownText(field_current)[1])
                /\ ~InDomain(field_column, field_current) =>
                       field_value = PyStr(domain[1])

\* an edit form whose record holds a value outside the domain came back with
\* the first domain value, a domain of several values
C21_Witness ==
    /\ field_suffix = "edit"
    /\ field_options = DROPDOWN_VALUES(field_column)
    /\ Len(field_options) > 1
    /\ field_current = PyStr(<<"o","p","e","n">>)
    /\ field_value = PyStr(field_options[1])

C21_AddReached ==
    /\ field_suffix = "add"
    /\ Len(field_options) > 2
    /\ field_value = SELECT_PLACEHOLDER

C21_KeptReached ==
    /\ field_suffix = "edit"
    /\ field_current = PyInt(2)
    /\ field_value = PyStr(<<"2">>)

(***************************************************************************)
(* C26  A schema is there whenever the forms are                           *)
(***************************************************************************)
\* C26: in every reachable session state of the masterfile page,
\* connection_established being True and table_data not None imply that
\* table_schema is not None, whichever backend calls of Connect, Refresh and
\* the mutations failed before.
C26_SchemaWithForms ==
    (connection_established /\ table_data.present) => table_schema.present

\* the forms are up right after a Refresh whose schema read failed
C26_Witness ==
    /\ connection_established
    /\ table_data.present
    /\ table_schema.present
    /\ failure = "describe"
    /\ message = "refresh_failed"

\* a Connect whose schema read failed has left a snapshot behind
C26_PartialConnectReached ==
    /\ ~connection_established
    /\ table_data.present
    /\ failure = "describe"
    /\ message = "connect_failed"

\* the forms are up after a mutation the warehouse rejected
C26_RejectedReached ==
    /\ connection_established
    /\ table_data.present
    /\ failure = "execute"

(***************************************************************************)
(* C23  Order of the Add Record checks                                     *)
(***************************************************************************)
\* the submitted form breaks the timeline rule
TimelineBroken ==
    /\ ~IsMissing(Timeline("timeline_year"))
    /\ IsMissing(Timeline("timeline_month"))
    /\ IsMissing(Timeline("timeline_quarter"))

\* the first check, in the order duplicate / mandatory / timeline / format,
\* that the submitted form fails against the snapshot; "" when it passes all
FirstFailure(snapshot, form, missing, timeline) ==
    LET tk == CHOOSE i \in 1..Len(form) : form[i][1] = "ticket"
    IN  IF \E i \in 1..Len(snapshot) : SameTicket(form[tk][2].s, snapshot[i]["ticket"])
        THEN "duplicate"
        ELSE IF missing # {} THEN "mandatory"
        ELSE IF timeline THEN "timeline"
        ELSE IF ~FullMatch(form[tk][2].s) THEN "format"
        ELSE ""

\* how the last Add Record ended: the check it reported, "connect" when
\* get_connection raised, "" when the INSERT went to the backend
AddOutcome ==
    CASE message = "ticket_exists" /\ ~validation.called /\ query = NoQuery -> "duplicate"
      [] /\ message = "validation_error" /\ validation.kind = "mandatory"
         /\ query = NoQuery
         /\ \E i \in MissingMandatory :
               /\ \A j \in MissingMandatory : i <= j
               /\ validation.field = record_data[i][1]                     -> "mandatory"
      [] /\ message = "validation_error" /\ validation.kind = "timeline"
         /\ query = NoQuery                                                -> "timeline"
      [] /\ message = "add_error" /\ validation.ok /\ query = NoQuery
         /\ failure = "connect"                                            -> "connect"
      [] /\ message = "add_error" /\ validation.ok /\ query = NoQuery
         /\ failure = "none"                                               -> "format"
      [] validation.ok /\ query.op = "INSERT"                              -> ""
      [] OTHER                                                             -> "other"

\* C23: Add Record checks the duplicate ticket first, then the mandatory
\* fields in schema order, then the timeline rule, then the ticket format
\* inside insert_record; it stops at the first check that fails and reports
\* that failure alone (a later check is not even run), and an INSERT reaches
\* the backend only when all four pass.
C23_CheckOrder ==
    [][ message' \in AddMessages =>
          \/ AddOutcome' = FirstFailure(table_data.v, record_data', MissingMandatory',
                                        TimelineBroken')
          \/ /\ AddOutcome' = "connect"
             /\ FirstFailure(table_data.v, record_data', MissingMandatory',
                             TimelineBroken') \in {"format", ""} ]_vars

\* a form that is a duplicate and misses a mandatory field was reported as a
\* duplicate, unvalidated
C23_Witness ==
    /\ message = "ticket_exists"
    /\ ~validation.called
    /\ MissingMandatory # {}
    /\ query = NoQuery

\* a form missing a mandatory field and breaking the timeline rule was
\* reported for the mandatory field
C23_MandatoryReached ==
    /\ message = "validation_error"
    /\ validation.kind = "mandatory"
    /\ TimelineBroken

\* a form breaking the timeline rule with a malformed ticket was reported for
\* the timeline rule
C23_TimelineReached ==
    /\ message = "validation_error"
    /\ validation.kind = "timeline"
    /\ ~FullMatch(ticket.s)

\* a form passing all four checks was inserted
C23_InsertReached ==
    /\ message = "added"
    /\ query.op = "INSERT"
    /\ record_data # <<>>

(***************************************************************************)
(* C22  Rows an UPDATE or DELETE of the page acts on                       *)
(***************************************************************************)
EditMessages == {"updated", "update_error", "deleted", "delete_error"}

\* the selected record's value in the first schema column
SelectedKey(record) == record.v[table_schema.v[1][1]]

\* the rows of the table that share the selected record's first-column value
SharingKey(rows, record) ==
    { i \in 1..Len(rows) : rows[i][table_schema.v[1][1]] = SelectedKey(record) }

\* the rows kept, in order, when the rows at the positions gone are removed
RECURSIVE Without(_, _, _)
Without(rows, gone, i) ==
    IF i > Len(rows) THEN <<>>
    ELSE (IF i \in gone THEN <<>> ELSE <<rows[i]>>) \o Without(rows, gone, i + 1)

C22_DeleteReached ==
    /\ message = "deleted"
    /\ selected_record = Present(IdRow(PyInt(1), PyStr(<<"M","D","A","R","-","2">>)))
    /\ db = <<>>

\* a Confirm Delete on a record without identifier was rejected
C22_NullReached ==
    /\ message = "delete_error"
    /\ selected_record.present
    /\ SelectedKey(selected_record) = PyNone
    /\ query.op = "DELETE"
    /\ query.where.val = <<"N","o","n","e">>
    /\ failure = "execute"

(***************************************************************************)
(* C24  Ticket uniqueness across a session                                 *)
(***************************************************************************)
\* C24 as stated: the tickets of the table are pairwise distinct, ignoring
\* case and surrounding whitespace, after any sequence of Add, Edit and
\* Delete operations on a table that started that way.
C24_AsStated ==
    \A i, j \in 1..Len(db) :
        (i < j /\ db[i]["ticket"].t = "str") => ~SameTicket(db[i]["ticket"].s, db[j]["ticket"])

\* every table a session starts from has pairwise distinct tickets
C24_StartsDistinct ==
    (message = "none" /\ ~table_data.present) => C24_AsStated

\* an Edit has given the row O'B the ticket of another row, no identifier
\* being shared
C24_EditReached ==
    /\ db_schema = SchemaTicketFirst
    /\ message = "updated"
    /\ Len(db) = 2
    /\ db[1]["ticket"] = PyStr(<<"M","D","A","R","-","1">>)
    /\ db[2]["ticket"] = PyStr(<<"M","D","A","R","-","1"," ">>)

(***************************************************************************)
(* C25  Save Changes on an untouched edit form                             *)
(***************************************************************************)
\* the form loop of edit_record_form with no control touched
edit_untouched(schema, row) ==
    [k \in 1..Len(schema) |->
        <<schema[k][1], render_default(schema[k][1], schema[k][2], row[schema[k][1]], "edit")>>]

\* C25 as stated: a Save Changes that sends the UPDATE of an untouched form
\* leaves the selected record's row as it was.
C25_AsStated ==
    [][ (/\ message' = "updated"
         /\ query' = update_record(edit_untouched(table_schema.v, selected_record'.v),
                                   where_clause(table_schema.v, selected_record'.v)).q)
        => (/\ Len(db') = Len(db)
            /\ \A i \in 1..Len(db) : db[i] = selected_record'.v => db'[i] = db[i]) ]_vars

\* an untouched save has gone through on a record that holds no nulls
C25_UnchangedReached ==
    /\ message = "updated"
    /\ selected_record = Present(IdRow(PyInt(1), PyStr(<<"M","D","A","R","-","1">>)))
    /\ db = << selected_record.v >>
    /\ query.vals = << <<"1">>, <<"'","M","D","A","R","-","1","'">>, <<"'","x","'">> >>

(***************************************************************************)
(* SpecForm: script runs of the generic table form editor.  Each run       *)
(* executes views/table_form_editor.py from its first line to its last in  *)
(* a fresh namespace (form_app.py hands the file's text to exec); only     *)
(* st.session_state lives on between runs.  The statements of              *)
(* show_table_form_interface are no part of this specification: no run     *)
(* gets into the function's body.                                          *)
(***************************************************************************)
FormTableNames == {"main.sales.orders", "main.sales.customers", "main.hr.staff"}

\* what SELECT * and DESCRIBE return for a table of the catalog
form_table(name) ==
    CASE name = "main.sales.orders" ->
           [rows   |-> << [id |-> PyInt(1), item |-> PyStr(<<"x">>)] >>,
            schema |-> << <<"id", type_int>>, <<"item", type_string>> >>]
      [] name = "main.sales.customers" ->
           [rows   |-> << [cid |-> PyInt(7), name |-> PyStr(<<"O","'","B">>)],
                          [cid |-> PyInt(8), name |-> PyNone] >>,
            schema |-> << <<"cid", type_int>>, <<"name", type_string>> >>]
      [] OTHER ->
           [rows   |-> <<>>,
            schema |-> << <<"sid", type_int>> >>]

\* a top-level call at line call_line of a function whose def statement is at
\* line def_line: the def has bound the name only when it stands above the call
call_at(def_line, call_line) ==
    IF def_line < call_line THEN "shown" ELSE "NameError"

\* the try block of a load branch, reached with both selections made
LoadBranch(name, refresh, fault, call_line) ==
    IF fault = "connect"
    THEN /\ message' = "connection_failed"
         /\ interface' = "none"
         /\ refresh_shown' = FALSE
         /\ UNCHANGED <<table_data, table_schema>>
    ELSE /\ refresh_shown' = table_data.present
         /\ fault \in {"read", "describe"} => (~table_data.present \/ refresh)
         /\ IF fault = "read"
            THEN /\ message' = "connection_failed"
                 /\ interface' = "none"
                 /\ UNCHANGED <<table_data, table_schema>>
            ELSE IF fault = "describe"
            THEN /\ table_data' = Present(form_table(name).rows)
                 /\ message' = "connection_failed"
                 /\ interface' = "none"
                 /\ UNCHANGED table_schema
            ELSE /\ IF ~table_data.present \/ refresh
                    THEN /\ table_data' = Present(form_table(name).rows)
                         /\ table_schema' = Present(form_table(name).schema)
                    ELSE UNCHANGED <<table_data, table_schema>>
                 /\ interface' = call_at(311, call_line)
                 /\ message' = IF interface' = "NameError" THEN "connection_failed"
                                                           ELSE "connected"

\* one script run: the resource listing, then the selection widgets of the
\* chosen connection method, then the load branch when the selection is complete
ScriptRun(name, refresh, fault, call_line) ==
    /\ refresh => (refresh_shown /\ name = table_name)
    /\ failure' = fault
    /\ IF fault = "resources"
       THEN /\ message' = "resources_failed"
            /\ table_name' = ""
            /\ interface' = "none"
            /\ refresh_shown' = FALSE
            /\ UNCHANGED <<table_data, table_schema>>
       ELSE /\ table_name' = name
            /\ IF name = ""
               THEN /\ fault = "none"
                    /\ message' = "none"
                    /\ interface' = "none"
                    /\ refresh_shown' = FALSE
                    /\ UNCHANGED <<table_data, table_schema>>
               ELSE LoadBranch(name, refresh, fault, call_line)
    /\ UNCHANGED <<db, db_schema, connection_established, query, selected_record,
                   callVars, seedVars, dropdownVars, mcpVars>>

FormFaults == {"none", "resources", "connect", "read", "describe"}

\* a run with "Direct table input" chosen
DirectInput ==
    \E name \in FormTableNames \cup {""}, refresh \in BOOLEAN, fault \in FormFaults :
        ScriptRun(name, refresh, fault, 239)

\* a run with "Select from dropdowns" chosen
DropdownSelection ==
    \E name \in FormTableNames \cup {""}, refresh \in BOOLEAN, fault \in FormFaults :
        ScriptRun(name, refresh, fault, 306)

InitForm ==
    /\ PageIdle /\ SqlIdle /\ ValidateIdle /\ ClassifyIdle /\ TicketIdle
    /\ SeedIdle /\ DropdownIdle /\ FormIdle /\ McpIdle

NextForm == DirectInput \/ DropdownSelection

SpecForm == InitForm /\ [][NextForm]_vars

(***************************************************************************)
(* C27  The generic editor reaches its action interface                    *)
(***************************************************************************)
\* the last run had a table chosen and loaded, or kept, data and schema
\* without a failing backend call
LoadedRun ==
    /\ table_name # ""
    /\ failure = "none"
    /\ table_data.present
    /\ table_schema.present

\* C27 as stated: a run in which a warehouse and a table are chosen and data
\* and schema load without error runs the body of show_table_form_interface
\* and does not end in the 'Connection failed' branch.
C27_AsStated ==
    LoadedRun => (interface = "shown" /\ message # "connection_failed")

\* no run of either connection method gets into show_table_form_interface
C27_NeverShown == interface # "shown"

\* a run that loaded the table ended in 'Connection failed' on the call
C27_NameErrorReached ==
    /\ LoadedRun
    /\ table_data = Present(form_table(table_name).rows)
    /\ interface = "NameError"
    /\ message = "connection_failed"

(***************************************************************************)
(* C28  The snapshot of the generic editor and the chosen table            *)
(***************************************************************************)
\* C28 as stated: in every run that gets to the action interface for the
\* chosen table, table_data and table_schema were fetched from that table.
C28_AsStated ==
    interface # "none" =>
        /\ table_data = Present(form_table(table_name).rows)
        /\ table_schema = Present(form_table(table_name).schema)

\* a run for one table got to the interface with the rows of another
C28_StaleReached ==
    /\ table_name = "main.sales.customers"
    /\ interface # "none"
    /\ table_data = Present(form_table("main.sales.orders").rows)

\* pressing Refresh Data brought the snapshot back to the chosen table
C28_RefreshedReached ==
    /\ table_name = "main.sales.customers"
    /\ interface # "none"
    /\ refresh_shown
    /\ table_data = Present(form_table("main.sales.customers").rows)
    /\ table_schema = Present(form_table("main.sales.customers").schema)

(***************************************************************************)
(* SpecMcp: the Send Request handler of the MCP page (views/mcp_connect.py) *)
(* mcp_calls lists the requests the last handler handed to                 *)
(* w.serving_endpoints.http_request, in order.                             *)
(***************************************************************************)
\* connection_name.replace(" ", "")
RECURSIVE remove_spaces(_)
remove_spaces(s) ==
    IF s = <<>> THEN <<>>
    ELSE (IF Head(s) = " " THEN <<>> ELSE <<Head(s)>>) \o remove_spaces(Tail(s))

\* the json argument of the user's request: the parsed text, the text itself
\* when json.loads was skipped or failed, {} when the text area is empty
request_json(data) ==
    CASE data = "valid"   -> "object"
      [] data = "invalid" -> "text"
      [] data = "blank"   -> "text"
      [] OTHER            -> "empty-object"

\* the initialize request: POST, no Mcp-Session-Id header
InitializeCall(conn) ==
    [rpc |-> "initialize", conn |-> conn, method |-> "POST", json |-> "object",
     has_session |-> FALSE, session |-> PyNone]

\* the user's request with its Mcp-Session-Id header
RequestCall(conn, method, data, session) ==
    [rpc |-> "request", conn |-> conn, method |-> method, json |-> request_json(data),
     has_session |-> TRUE, session |-> session]

\* what the server answers to initialize: a session id in the
\* mcp-session-id header, no such header, or an error of one of three kinds
InitReplies ==
    {"id:s1", "id:s2", "no-header", "login-error-with-url", "login-error", "error"}

\* init_github_mcp_connection: (session_id, error) and whether the request left
init_github_mcp_connection(client, reply) ==
    IF ~client
    THEN [session_id |-> PyNone, error |-> "exception", sent |-> FALSE]
    ELSE CASE reply = "id:s1" ->
                [session_id |-> PyStr(<<"s","1">>), error |-> "", sent |-> TRUE]
           [] reply = "id:s2" ->
                [session_id |-> PyStr(<<"s","2">>), error |-> "", sent |-> TRUE]
           [] reply = "no-header" ->
                [session_id |-> PyNone, error |-> "no-session-id", sent |-> TRUE]
           [] OTHER ->
                [session_id |-> PyNone, error |-> reply, sent |-> TRUE]

\* the report the handler shows for the error of an initialize
init_report(error) ==
    CASE error = ""                     -> "none"
      [] error = "login-error-with-url" -> "login_required"
      [] error = "login-error"          -> "mcp_error"
      [] OTHER                          -> "mcp_init_error"

\* Send Request initializing whether or not a session id is stored
SendRequest_always_initializing(client, reply, typed, method, data, responds) ==
    LET conn == remove_spaces(typed)
        init == init_github_mcp_connection(client, reply)
    IN  /\ mcp_session_id' = init.session_id
        /\ message' = init_report(init.error)
        /\ mcp_calls' = (IF init.sent THEN <<InitializeCall(conn)>> ELSE <<>>)
                        \o (IF client
                            THEN <<RequestCall(conn, method, data, init.session_id)>>
                            ELSE <<>>)
        /\ failure' = (IF ~client THEN "client"
                       ELSE IF ~responds THEN "request"
                       ELSE IF data = "invalid" THEN "json" ELSE "none")
        /\ UNCHANGED <<db, db_schema, table_data, table_schema, connection_established,
                       query, selected_record, callVars, seedVars, dropdownVars, formVars>>

\* the "Send Request" button: client is whether the chosen authentication
\* mode gave a WorkspaceClient, reply the server's answer to an initialize,
\* typed, method and data the widgets' values, responds whether the user's
\* request comes back without an exception
SendRequest(client, reply, typed, method, data, responds) ==
    LET conn == remove_spaces(typed)
        init == init_github_mcp_connection(client, reply)
    IN  /\ IF ~truthy(mcp_session_id)
           THEN /\ mcp_session_id' = init.session_id
                /\ message' = init_report(init.error)
                /\ mcp_calls' = (IF init.sent THEN <<InitializeCall(conn)>> ELSE <<>>)
                                \o (IF client
                                    THEN <<RequestCall(conn, method, data, init.session_id)>>
                                    ELSE <<>>)
           ELSE /\ UNCHANGED mcp_session_id
                /\ message' = "none"
                /\ mcp_calls' = (IF client
                                 THEN <<RequestCall(conn, method, data, mcp_session_id)>>
                                 ELSE <<>>)
        /\ failure' = (IF ~client THEN "client"
                       ELSE IF ~responds THEN "request"
                       ELSE IF data = "invalid" THEN "json" ELSE "none")
        /\ UNCHANGED <<db, db_schema, table_data, table_schema, connection_established,
                       query, selected_record, callVars, seedVars, dropdownVars, formVars>>

\* a new browser session: st.session_state starts empty again
NewSession ==
    /\ mcp_session_id' = PyNone
    /\ mcp_calls' = <<>>
    /\ message' = "none"
    /\ failure' = "none"
    /\ UNCHANGED <<db, db_schema, table_data, table_schema, connection_established,
                   query, selected_record, callVars, seedVars, dropdownVars, formVars>>

InitMcp ==
    /\ PageIdle /\ SqlIdle /\ ValidateIdle /\ ClassifyIdle /\ TicketIdle
    /\ SeedIdle /\ DropdownIdle /\ FormIdle /\ McpIdle

NextMcp ==
    \/ \E client \in BOOLEAN, reply \in InitReplies,
          typed \in {<<"g","h">>, <<"g"," ","h">>, <<>>}, method \in {"POST", "GET"},
          data \in {"valid", "invalid", "blank", ""}, responds \in BOOLEAN :
             SendRequest(client, reply, typed, method, data, responds)
    \/ NewSession

SpecMcp == InitMcp /\ [][NextMcp]_vars

(***************************************************************************)
(* C29  One initialize per session id                                      *)
(***************************************************************************)
\* the requests of the last handler that are an initialize
Initializes(calls) == { i \in 1..Len(calls) : calls[i].rpc = "initialize" }

\* C29: the initialize request is sent only when st.session_state.mcp_session_id
\* is empty; a session id an initialize returned is stored, and every later
\* Send Request of the session sends no initialize, keeps the stored id and
\* carries it in the Mcp-Session-Id header of the user's request.
C29_InitializeOnce ==
    [][ mcp_calls' # <<>> =>
          IF mcp_session_id.t = "str" /\ mcp_session_id.s # <<>>
          THEN /\ Initializes(mcp_calls') = {}
               /\ mcp_session_id' = mcp_session_id
               /\ \A i \in 1..Len(mcp_calls') :
                     mcp_calls'[i].has_session /\ mcp_calls'[i].session = mcp_session_id
          ELSE /\ Initializes(mcp_calls') = {1}
               /\ ~mcp_calls'[1].has_session
               /\ message' = "none" =>
                     /\ mcp_session_id'.t = "str"
                     /\ mcp_session_id'.s # <<>>
                     /\ mcp_calls'[2].session = mcp_session_id' ]_vars

\* a Send Request has reused the stored session id s1: one request, no
\* initialize
C29_Witness ==
    /\ mcp_session_id = PyStr(<<"s","1">>)
    /\ Len(mcp_calls) = 1
    /\ mcp_calls[1].rpc = "request"
    /\ mcp_calls[1].session = PyStr(<<"s","1">>)

\* the first Send Request of a session has initialized and then sent the
\* user's request with the id it got
C29_FirstReached ==
    /\ mcp_session_id = PyStr(<<"s","2">>)
    /\ Len(mcp_calls) = 2
    /\ mcp_calls[1].rpc = "initialize"
    /\ mcp_calls[2].session = PyStr(<<"s","2">>)

(***************************************************************************)
(* C30  The session header of the user's request                           *)
(***************************************************************************)
\* C30 as stated: the user's request leaves only with a non-null
\* Mcp-Session-Id header; after an initialize that failed or returned no
\* session id no user request is sent in that run.
C30_AsStated ==
    \A i \in 1..Len(mcp_calls) :
        mcp_calls[i].rpc = "request" => mcp_calls[i].session # PyNone

\* after an initialize without session id the user's request went out with
\* the header set to None, next to the reported error
C30_NullHeaderReached ==
    /\ message = "mcp_init_error"
    /\ mcp_session_id = PyNone
    /\ Len(mcp_calls) = 2
    /\ mcp_calls[2] = RequestCall(<<"g","h">>, "POST", "valid", PyNone)

====
